---- MODULE Spec2Model ----
(***************************************************************************)
(* YALPS: a two-phase tableau simplex with a best-first branch-and-cut     *)
(* search.  One behaviour of this module is one call of solve(model,       *)
(* options): Init builds the tableau of a model drawn from a bounded       *)
(* family, every simplex loop iteration and every branch-and-cut loop      *)
(* iteration is one step, and the last step stores the Solution.           *)
(*                                                                         *)
(* Numbers.  A JavaScript number is modelled as an extended rational       *)
(* <<n, d>> in lowest terms with d >= 0: d > 0 is the finite value n/d,    *)
(* <<1,0>> is +Infinity, <<-1,0>> is -Infinity and <<0,0>> is NaN.         *)
(* Arithmetic on finite values is exact.                                   *)
(***************************************************************************)
EXTENDS Integers, Sequences, FiniteSets, TLC

----------------------------------------------------------------------------
(* Extended rational arithmetic (the IEEE-754 operations the code uses).   *)

Abs(i) == IF i < 0 THEN -i ELSE i

RECURSIVE GCD(_, _)
GCD(a, b) == IF b = 0 THEN a ELSE GCD(b, a % b)

\* The number n/d (d > 0) in lowest terms.
Q(n, d) == LET g == GCD(Abs(n), d) IN <<n \div g, d \div g>>

Num(i) == <<i, 1>>
Zero == <<0, 1>>
One == <<1, 1>>
Inf == <<1, 0>>
NegInf == <<-1, 0>>
NaN == <<0, 0>>

IsNaN(a) == a = NaN
IsFinite(a) == a[2] > 0

\* a < b as JavaScript compares numbers: false whenever NaN is involved.
Lt(a, b) ==
  IF IsNaN(a) \/ IsNaN(b) THEN FALSE
  ELSE IF IsFinite(a) /\ IsFinite(b)
  THEN LET g == GCD(a[2], b[2]) IN a[1] * (b[2] \div g) < b[1] * (a[2] \div g)
  ELSE IF IsFinite(a) THEN b = Inf
  ELSE IF IsFinite(b) THEN a = NegInf
  ELSE a = NegInf /\ b = Inf

Gt(a, b) == Lt(b, a)
Le(a, b) == ~IsNaN(a) /\ ~IsNaN(b) /\ (a = b \/ Lt(a, b))
Ge(a, b) == Le(b, a)

Neg(a) == <<-a[1], a[2]>>

\* a + b, a - b, a * b, a / b on finite operands (the only ones the pivots
\* meet), common factors taken out before multiplying
Add(a, b) ==
  LET g == GCD(a[2], b[2])
  IN Q(a[1] * (b[2] \div g) + b[1] * (a[2] \div g), (a[2] \div g) * b[2])
Sub(a, b) ==
  LET g == GCD(a[2], b[2])
  IN Q(a[1] * (b[2] \div g) - b[1] * (a[2] \div g), (a[2] \div g) * b[2])
Mul(a, b) ==
  IF IsFinite(a) /\ IsFinite(b)
  THEN LET g1 == GCD(Abs(a[1]), b[2])
           g2 == GCD(Abs(b[1]), a[2])
       IN Q((a[1] \div g1) * (b[1] \div g2), (a[2] \div g2) * (b[2] \div g1))
  ELSE IF IsNaN(a) \/ IsNaN(b) \/ a[1] = 0 \/ b[1] = 0 THEN NaN
  ELSE IF (a[1] > 0) = (b[1] > 0) THEN Inf ELSE NegInf
Div(a, b) ==
  IF b[1] # 0 /\ IsFinite(a) /\ IsFinite(b)
  THEN LET g1 == GCD(Abs(a[1]), Abs(b[1]))
           g2 == GCD(a[2], b[2])
           n == (a[1] \div g1) * (b[2] \div g2)
           d == (a[2] \div g2) * (Abs(b[1]) \div g1)
       IN Q(IF b[1] > 0 THEN n ELSE -n, d)
  ELSE IF b[1] > 0 THEN Q(a[1] * b[2], a[2] * b[1])
  ELSE IF b[1] < 0 THEN Q(-(a[1] * b[2]), a[2] * (-b[1]))
  ELSE IF a[1] = 0 THEN NaN
  ELSE IF a[1] > 0 THEN Inf ELSE NegInf

AbsQ(a) == <<Abs(a[1]), a[2]>>
MaxQ(a, b) == IF Lt(a, b) THEN b ELSE a
MinQ(a, b) == IF Lt(b, a) THEN b ELSE a

\* Math.floor, Math.ceil and Math.round (round half up) of a finite number
Floor(a) == a[1] \div a[2]
Ceil(a) == -((-a[1]) \div a[2])
Round(a) == (2 * a[1] + a[2]) \div (2 * a[2])

----------------------------------------------------------------------------
(* The model (types.ts) and the tableau built from it (tableau.ts).        *)
(*                                                                         *)
(* A model is a record                                                     *)
(*   direction   : "maximize", "minimize" or "absent"                      *)
(*   objective   : a constraint key, or "absent"                           *)
(*   constraints : a sequence of <<key, [equal, min, max]>>                *)
(*   variables   : a sequence of <<key, coefficients>>, the coefficients   *)
(*                 being a sequence of <<constraint key, number>>          *)
(*   integers, binaries : [all : BOOLEAN, keys : a set of variable keys]   *)
(* An absent field of a Constraint is the empty tuple.                     *)

Absent == <<>>

\* a ?? b
Coalesce(a, b) == IF a = Absent THEN b ELSE a

\* index(tableau, row, col) and update(tableau, row, col, value)
Index(t, row, col) == t.matrix[row * t.width + col]

Update(t, row, col, value) ==
  [t EXCEPT !.matrix = [@ EXCEPT ![row * t.width + col] = value]]

\* The Map with the bounds of a key replaced by those of its latest entry.
RECURSIVE MergeConstraintsLastWins(_, _)
MergeConstraintsLastWins(cons, acc) ==
  IF cons = <<>> THEN acc
  ELSE
    LET key == Head(cons)[1]
        con == Head(cons)[2]
        lo == Coalesce(con.equal, Coalesce(con.min, NegInf))
        up == Coalesce(con.equal, Coalesce(con.max, Inf))
        at == {i \in 1..Len(acc) : acc[i].key = key}
    IN IF at = {}
       THEN MergeConstraintsLastWins(Tail(cons),
              Append(acc, [key |-> key, lower |-> lo, upper |-> up]))
       ELSE LET i == CHOOSE j \in at : TRUE
            IN MergeConstraintsLastWins(Tail(cons),
                 [acc EXCEPT ![i] = [key |-> key, lower |-> lo, upper |-> up]])

\* The Map of merged bounds, in first-occurrence order of the keys.
RECURSIVE MergeConstraints(_, _)
MergeConstraints(cons, acc) ==
  IF cons = <<>> THEN acc
  ELSE
    LET key == Head(cons)[1]
        con == Head(cons)[2]
        lo == Coalesce(con.equal, Coalesce(con.min, NegInf))
        up == Coalesce(con.equal, Coalesce(con.max, Inf))
        at == {i \in 1..Len(acc) : acc[i].key = key}
    IN IF at = {}
       THEN MergeConstraints(Tail(cons),
              Append(acc, [key |-> key, lower |-> MaxQ(NegInf, lo), upper |-> MinQ(Inf, up)]))
       ELSE LET i == CHOOSE j \in at : TRUE
            IN MergeConstraints(Tail(cons),
                 [acc EXCEPT ![i] = [key |-> key,
                                     lower |-> MaxQ(acc[i].lower, lo),
                                     upper |-> MinQ(acc[i].upper, up)]])

\* One row for every merged constraint, whatever its bounds.
NumRowsOneEach(b) == 1

\* Rows a merged constraint occupies: one per finite side.
NumRows(b) == (IF IsFinite(b.lower) THEN 1 ELSE 0) + (IF IsFinite(b.upper) THEN 1 ELSE 0)

\* constraint.row of the i-th merged constraint; i = Len + 1 gives numConstraints.
RECURSIVE RowOf(_, _)
RowOf(bounds, i) == IF i = 1 THEN 1 ELSE RowOf(bounds, i - 1) + NumRows(bounds[i - 1])

\* The value the fill loop leaves for `key` in one variable's coefficients:
\* the last entry with that key wins; Absent when there is none.
RECURSIVE LastCoef(_, _)
LastCoef(coefs, key) ==
  IF coefs = <<>> THEN Absent
  ELSE IF coefs[Len(coefs)][1] = key THEN coefs[Len(coefs)][2]
  ELSE LastCoef(SubSeq(coefs, 1, Len(coefs) - 1), key)

\* A variable taken as binary only when it is not marked integer.
IsBinaryUnlessInteger(model, i) ==
  /\ model.binaries.all \/ model.variables[i][1] \in model.binaries.keys
  /\ ~(model.integers.all \/ model.variables[i][1] \in model.integers.keys)

\* The columns marked binary, and the columns marked integer or binary.
IsBinary(model, i) == model.binaries.all \/ model.variables[i][1] \in model.binaries.keys
IsInteger(model, i) ==
  IsBinary(model, i) \/ model.integers.all \/ model.variables[i][1] \in model.integers.keys

\* The loop over the variables: the columns pushed on binaryConstraintCol
\* (binaryOnly) or on ints, from column i on.
RECURSIVE Columns(_, _, _)
Columns(model, i, binaryOnly) ==
  IF i > Len(model.variables) THEN <<>>
  ELSE (IF (IF binaryOnly THEN IsBinary(model, i) ELSE IsInteger(model, i))
        THEN <<i>> ELSE <<>>)
       \o Columns(model, i + 1, binaryOnly)

\* sign with minimize as the default direction.
ModelSignMinimizeByDefault(model) == IF model.direction = "maximize" THEN 1 ELSE -1

\* const sign = direction === "minimize" ? -1.0 : 1.0
ModelSign(model) == IF model.direction = "minimize" THEN -1 ELSE 1

\* tableauModel with the row of a lower bound written as the bound is given:
\* right-hand side L and the coefficients themselves.
TableauModelLowerAsGiven(model) ==
  LET sign == ModelSign(model)
      variables == model.variables
      n == Len(variables)
      binaryConstraintCol == Columns(model, 1, TRUE)
      ints == Columns(model, 1, FALSE)
      constraints == MergeConstraints(model.constraints, <<>>)
      numConstraints == RowOf(constraints, Len(constraints) + 1)
      width == n + 1
      height == numConstraints + Len(binaryConstraintCol)
      numVars == width + height
      \* the entry of row r, column c >= 1 left by the coefficient loop
      Coef(r, c) ==
        IF r = 0
        THEN LET o == IF model.objective = "absent" THEN Absent
                      ELSE LastCoef(variables[c][2], model.objective)
             IN IF o = Absent THEN Zero ELSE Mul(Num(sign), o)
        ELSE IF r >= numConstraints
        THEN IF binaryConstraintCol[r - numConstraints + 1] = c THEN One ELSE Zero
        ELSE LET i == CHOOSE j \in 1..Len(constraints) :
                        /\ RowOf(constraints, j) <= r
                        /\ r < RowOf(constraints, j) + NumRows(constraints[j])
                 b == constraints[i]
                 k == LastCoef(variables[c][2], b.key)
                 upperRow == IsFinite(b.upper) /\ r = RowOf(constraints, i)
             IN IF k = Absent THEN Zero ELSE k
      \* the entry of row r, column 0
      Rhs(r) ==
        IF r = 0 THEN Zero
        ELSE IF r >= numConstraints THEN One
        ELSE LET i == CHOOSE j \in 1..Len(constraints) :
                        /\ RowOf(constraints, j) <= r
                        /\ r < RowOf(constraints, j) + NumRows(constraints[j])
                 b == constraints[i]
             IN IF IsFinite(b.upper) /\ r = RowOf(constraints, i) THEN b.upper ELSE b.lower
  IN [tableau |->
        [matrix |-> [k \in 0..(width * height - 1) |->
                       IF k % width = 0 THEN Rhs(k \div width)
                       ELSE Coef(k \div width, k % width)],
         width |-> width,
         height |-> height,
         positionOfVariable |-> [i \in 0..(numVars - 1) |-> i],
         variableAtPosition |-> [i \in 0..(numVars - 1) |-> i]],
      sign |-> sign,
      variables |-> variables,
      integers |-> ints]

\* tableauModel (tableau.ts)
TableauModel(model) ==
  LET sign == ModelSign(model)
      variables == model.variables
      n == Len(variables)
      binaryConstraintCol == Columns(model, 1, TRUE)
      ints == Columns(model, 1, FALSE)
      constraints == MergeConstraints(model.constraints, <<>>)
      numConstraints == RowOf(constraints, Len(constraints) + 1)
      width == n + 1
      height == numConstraints + Len(binaryConstraintCol)
      numVars == width + height
      \* the entry of row r, column c >= 1 left by the coefficient loop
      Coef(r, c) ==
        IF r = 0
        THEN LET o == IF model.objective = "absent" THEN Absent
                      ELSE LastCoef(variables[c][2], model.objective)
             IN IF o = Absent THEN Zero ELSE Mul(Num(sign), o)
        ELSE IF r >= numConstraints
        THEN IF binaryConstraintCol[r - numConstraints + 1] = c THEN One ELSE Zero
        ELSE LET i == CHOOSE j \in 1..Len(constraints) :
                        /\ RowOf(constraints, j) <= r
                        /\ r < RowOf(constraints, j) + NumRows(constraints[j])
                 b == constraints[i]
                 k == LastCoef(variables[c][2], b.key)
                 upperRow == IsFinite(b.upper) /\ r = RowOf(constraints, i)
             IN IF k = Absent THEN Zero ELSE IF upperRow THEN k ELSE Neg(k)
      \* the entry of row r, column 0
      Rhs(r) ==
        IF r = 0 THEN Zero
        ELSE IF r >= numConstraints THEN One
        ELSE LET i == CHOOSE j \in 1..Len(constraints) :
                        /\ RowOf(constraints, j) <= r
                        /\ r < RowOf(constraints, j) + NumRows(constraints[j])
                 b == constraints[i]
             IN IF IsFinite(b.upper) /\ r = RowOf(constraints, i) THEN b.upper ELSE Neg(b.lower)
  IN [tableau |->
        [matrix |-> [k \in 0..(width * height - 1) |->
                       IF k % width = 0 THEN Rhs(k \div width)
                       ELSE Coef(k \div width, k % width)],
         width |-> width,
         height |-> height,
         positionOfVariable |-> [i \in 0..(numVars - 1) |-> i],
         variableAtPosition |-> [i \in 0..(numVars - 1) |-> i]],
      sign |-> sign,
      variables |-> variables,
      integers |-> ints]

----------------------------------------------------------------------------
(* The simplex method (simplex.ts).                                        *)

\* Math.abs(value) > 1e-16.  Every non-zero number the bounded models
\* produce is a ratio of small integers, far above 1e-16 in magnitude.
NonZero(value) == value[1] # 0

\* pivot that records the new position of the leaving variable only.
PivotOneMap(t, row, col) ==
  LET quotient == Index(t, row, col)
      leaving == t.variableAtPosition[t.width + row]
      entering == t.variableAtPosition[col]
      \* (1 / quotient) * R_pivot -> R_pivot
      PivotRow(c) ==
        IF c = col THEN Div(One, quotient)
        ELSE IF NonZero(Index(t, row, c)) THEN Div(Index(t, row, c), quotient)
        ELSE Zero
      \* -M[r, col] * R_pivot + R_r -> R_r, over the non-zero columns of R_pivot
      OtherRow(r, c) ==
        LET coef == Index(t, r, col)
        IN IF ~NonZero(coef) THEN Index(t, r, c)
           ELSE IF c = col THEN Div(Neg(coef), quotient)
           ELSE IF NonZero(Index(t, row, c))
           THEN Sub(Index(t, r, c), Mul(coef, PivotRow(c)))
           ELSE Index(t, r, c)
  IN [t EXCEPT
        !.variableAtPosition = [@ EXCEPT ![t.width + row] = entering, ![col] = leaving],
        !.positionOfVariable = [@ EXCEPT ![leaving] = col],
        !.matrix = [k \in DOMAIN @ |->
                      IF k \div t.width = row THEN PivotRow(k % t.width)
                      ELSE OtherRow(k \div t.width, k % t.width)]]

\* pivot (simplex.ts)
Pivot(t, row, col) ==
  LET quotient == Index(t, row, col)
      leaving == t.variableAtPosition[t.width + row]
      entering == t.variableAtPosition[col]
      \* (1 / quotient) * R_pivot -> R_pivot
      PivotRow(c) ==
        IF c = col THEN Div(One, quotient)
        ELSE IF NonZero(Index(t, row, c)) THEN Div(Index(t, row, c), quotient)
        ELSE Zero
      \* -M[r, col] * R_pivot + R_r -> R_r, over the non-zero columns of R_pivot
      OtherRow(r, c) ==
        LET coef == Index(t, r, col)
        IN IF ~NonZero(coef) THEN Index(t, r, c)
           ELSE IF c = col THEN Div(Neg(coef), quotient)
           ELSE IF NonZero(Index(t, row, c))
           THEN Sub(Index(t, r, c), Mul(coef, PivotRow(c)))
           ELSE Index(t, r, c)
  IN [t EXCEPT
        !.variableAtPosition = [@ EXCEPT ![t.width + row] = entering, ![col] = leaving],
        !.positionOfVariable = [@ EXCEPT ![leaving] = col, ![entering] = t.width + row],
        !.matrix = [k \in DOMAIN @ |->
                      IF k \div t.width = row THEN PivotRow(k % t.width)
                      ELSE OtherRow(k \div t.width, k % t.width)]]

\* history.push(...) of hasCycle
PushHistory(history, t, row, col) ==
  Append(history, <<t.variableAtPosition[t.width + row], t.variableAtPosition[col]>>)

\* The minimum length of a cycle that hasCycle looks for.
MinCycleLength == 6

\* hasCycle comparing each entry with the one length + 1 before it.
HasCycleShifted(history) ==
  \E length \in MinCycleLength..(Len(history) \div 2) :
    \A i \in 0..(length - 1) :
      Len(history) - i - length - 1 >= 1 /\
      history[Len(history) - i] = history[Len(history) - i - length - 1]

\* hasCycle, on the history after the push (1-based here, 0-based in the code)
HasCycle(history) ==
  \E length \in MinCycleLength..(Len(history) \div 2) :
    \A i \in 0..(length - 1) :
      history[Len(history) - i] = history[Len(history) - i - length]

\* roundToPrecision with the scale forgotten: Math.round(num).
RoundToWhole(num, precision) == Num(Round(num))

\* roundToPrecision (util.ts).  The Number.EPSILON added before rounding only
\* repairs representation error; on exact values Math.round decides alone.
RoundToPrecision(num, precision) ==
  LET rounding == Round(Div(One, precision))
  IN Q(Round(Mul(num, Num(rounding))), rounding)

\* phase2: the entering column, scanning c = from..width-1 with the best so far
RECURSIVE EnteringCol2(_, _, _, _)
EnteringCol2(t, c, col, value) ==
  IF c >= t.width THEN col
  ELSE IF Gt(Index(t, 0, c), value) THEN EnteringCol2(t, c + 1, c, Index(t, 0, c))
  ELSE EnteringCol2(t, c + 1, col, value)

\* A leaving-row scan that never stops early: the first row of the smallest
\* ratio among all the qualifying rows.
RECURSIVE LeavingRow2WholeScan(_, _, _, _, _, _)
LeavingRow2WholeScan(t, precision, col, r, row, minRatio) ==
  IF r >= t.height THEN row
  ELSE LET value == Index(t, r, col)
           ratio == Div(Index(t, r, 0), value)
       IN IF Le(value, precision) \/ ~Lt(ratio, minRatio)
          THEN LeavingRow2WholeScan(t, precision, col, r + 1, row, minRatio)
          ELSE LeavingRow2WholeScan(t, precision, col, r + 1, r, ratio)

\* phase2: the leaving row, scanning r = from..height-1
RECURSIVE LeavingRow2(_, _, _, _, _, _)
LeavingRow2(t, precision, col, r, row, minRatio) ==
  IF r >= t.height THEN row
  ELSE LET value == Index(t, r, col)
           ratio == Div(Index(t, r, 0), value)
       IN IF Le(value, precision) THEN LeavingRow2(t, precision, col, r + 1, row, minRatio)
          ELSE IF Lt(ratio, minRatio)
          THEN IF Le(ratio, precision) THEN r
               ELSE LeavingRow2(t, precision, col, r + 1, r, ratio)
          ELSE LeavingRow2(t, precision, col, r + 1, row, minRatio)

\* phase1: the leaving row, scanning r = from..height-1
RECURSIVE LeavingRow1(_, _, _, _)
LeavingRow1(t, r, row, rhs) ==
  IF r >= t.height THEN row
  ELSE IF Lt(Index(t, r, 0), rhs) THEN LeavingRow1(t, r + 1, r, Index(t, r, 0))
  ELSE LeavingRow1(t, r + 1, row, rhs)

\* phase1: the entering column for the leaving row
RECURSIVE EnteringCol1(_, _, _, _, _, _)
EnteringCol1(t, precision, row, c, col, maxRatio) ==
  IF c >= t.width THEN col
  ELSE LET coefficient == Index(t, row, c)
           ratio == Div(Neg(Index(t, 0, c)), coefficient)
       IN IF Lt(coefficient, Neg(precision)) /\ Gt(ratio, maxRatio)
          THEN EnteringCol1(t, precision, row, c + 1, c, ratio)
          ELSE EnteringCol1(t, precision, row, c + 1, col, maxRatio)

(* One iteration of the loop of phase1 or phase2 on tableau t, `iter`     *)
(* iterations done and `history` pushed so far.  The outcome is           *)
(*   [kind |-> "pivot", tableau, history]   the loop goes on              *)
(*   [kind |-> "phase2"]                    phase1 hands over to phase2   *)
(*   [kind |-> "return", status, result]    the simplex run returns       *)
Phase2Iter(t, options, iter, history) ==
  IF iter >= options.maxPivots THEN [kind |-> "return", status |-> "cycled", result |-> NaN]
  ELSE
    LET col == EnteringCol2(t, 1, 0, options.precision)
        row == LeavingRow2(t, options.precision, col, 1, 0, Inf)
        pushed == IF options.checkCycles THEN PushHistory(history, t, row, col) ELSE history
    IN IF col = 0
       THEN [kind |-> "return", status |-> "optimal",
             result |-> RoundToPrecision(Index(t, 0, 0), options.precision)]
       ELSE IF row = 0
       THEN [kind |-> "return", status |-> "unbounded", result |-> Num(col)]
       ELSE IF options.checkCycles /\ HasCycle(pushed)
       THEN [kind |-> "return", status |-> "cycled", result |-> NaN]
       ELSE [kind |-> "pivot", tableau |-> Pivot(t, row, col), history |-> pushed]

Phase1Iter(t, options, iter, history) ==
  IF iter >= options.maxPivots THEN [kind |-> "return", status |-> "cycled", result |-> NaN]
  ELSE
    LET row == LeavingRow1(t, 1, 0, Neg(options.precision))
        col == EnteringCol1(t, options.precision, row, 1, 0, NegInf)
        pushed == IF options.checkCycles THEN PushHistory(history, t, row, col) ELSE history
    IN IF row = 0 THEN [kind |-> "phase2"]
       ELSE IF col = 0
       THEN [kind |-> "return", status |-> "infeasible", result |-> NaN]
       ELSE IF options.checkCycles /\ HasCycle(pushed)
       THEN [kind |-> "return", status |-> "cycled", result |-> NaN]
       ELSE [kind |-> "pivot", tableau |-> Pivot(t, row, col), history |-> pushed]

----------------------------------------------------------------------------
(* The solution read back from a tableau (solution of YALPS.ts).           *)

\* The variables of a solution collected back to front (unshift for push).
RECURSIVE SolutionVariablesBackwards(_, _, _)
SolutionVariablesBackwards(tabmod, precision, i) ==
  IF i >= Len(tabmod.variables) THEN <<>>
  ELSE LET t == tabmod.tableau
           row == t.positionOfVariable[i + 1] - t.width
           value == Index(t, row, 0)
       IN SolutionVariablesBackwards(tabmod, precision, i + 1)
          \o (IF row >= 0 /\ Gt(value, precision)
              THEN << <<tabmod.variables[i + 1][1], RoundToPrecision(value, precision)>> >>
              ELSE <<>>)

RECURSIVE SolutionVariables(_, _, _)
SolutionVariables(tabmod, precision, i) ==
  IF i >= Len(tabmod.variables) THEN <<>>
  ELSE LET t == tabmod.tableau
           row == t.positionOfVariable[i + 1] - t.width
           value == Index(t, row, 0)
       IN (IF row >= 0 /\ Gt(value, precision)
           THEN << <<tabmod.variables[i + 1][1], RoundToPrecision(value, precision)>> >>
           ELSE <<>>)
          \o SolutionVariables(tabmod, precision, i + 1)

\* solution with the sign of an unbounded result forgotten: result: Infinity.
SolutionUnsigned(tabmod, status, result, precision) ==
  IF status = "optimal" \/ (status = "timedout" /\ ~IsNaN(result))
  THEN [status |-> status,
        result |-> Mul(Num(-tabmod.sign), result),
        variables |-> SolutionVariables(tabmod, precision, 0)]
  ELSE IF status = "unbounded"
  THEN LET variable == tabmod.tableau.variableAtPosition[result[1]] - 1
       IN [status |-> "unbounded",
           result |-> Inf,
           variables |-> IF 0 <= variable /\ variable < Len(tabmod.variables)
                         THEN << <<tabmod.variables[variable + 1][1], Inf>> >>
                         ELSE <<>>]
  ELSE [status |-> status, result |-> NaN, variables |-> <<>>]

Solution(tabmod, status, result, precision) ==
  IF status = "optimal" \/ (status = "timedout" /\ ~IsNaN(result))
  THEN [status |-> status,
        result |-> Mul(Num(-tabmod.sign), result),
        variables |-> SolutionVariables(tabmod, precision, 0)]
  ELSE IF status = "unbounded"
  THEN LET variable == tabmod.tableau.variableAtPosition[result[1]] - 1
       IN [status |-> "unbounded",
           result |-> Mul(Num(tabmod.sign), Inf),
           variables |-> IF 0 <= variable /\ variable < Len(tabmod.variables)
                         THEN << <<tabmod.variables[variable + 1][1], Inf>> >>
                         ELSE <<>>]
  ELSE [status |-> status, result |-> NaN, variables |-> <<>>]

\* The variables of a solution with includeZeroVariables set: every variable
\* in the model's order, 0 for one whose value is not above precision.
RECURSIVE SolutionVariablesWithZeros(_, _, _)
SolutionVariablesWithZeros(tabmod, precision, i) ==
  IF i >= Len(tabmod.variables) THEN <<>>
  ELSE LET t == tabmod.tableau
           row == t.positionOfVariable[i + 1] - t.width
           value == IF row >= 0 THEN Index(t, row, 0) ELSE Zero
       IN << <<tabmod.variables[i + 1][1],
               IF Gt(value, precision) THEN RoundToPrecision(value, precision) ELSE Zero>> >>
          \o SolutionVariablesWithZeros(tabmod, precision, i + 1)

\* solution as solve calls it, with the options: includeZeroVariables
\* changes the variables of an optimal (or timedout with a result) solution.
SolutionOf(tabmod, status, result, opts) ==
  LET s == Solution(tabmod, status, result, opts.precision)
  IN IF opts.includeZeroVariables
        /\ (status = "optimal" \/ (status = "timedout" /\ ~IsNaN(result)))
     THEN [s EXCEPT !.variables = SolutionVariablesWithZeros(tabmod, opts.precision, 0)]
     ELSE s

----------------------------------------------------------------------------
(* Branch and cut (branchAndCut.ts).  A cut is <<sign, variable, value>>,  *)
(* a branch is [eval, cuts].                                               *)

\* applyCuts writing every cut as that of a variable in a column.
ApplyCutsInColumns(t, cuts) ==
  LET width == t.width
      height == t.height
      length == width + height + Len(cuts)
  IN [matrix |-> [k \in 0..(width * (height + Len(cuts)) - 1) |->
                    IF k < width * height THEN t.matrix[k]
                    ELSE LET cut == cuts[k \div width - height + 1]
                         IN IF k % width = 0 THEN Num(cut[1] * cut[3])
                            ELSE IF k % width = t.positionOfVariable[cut[2]] THEN Num(cut[1])
                            ELSE Zero],
      width |-> width,
      height |-> height + Len(cuts),
      positionOfVariable |-> [i \in 0..(length - 1) |->
                                IF i < width + height THEN t.positionOfVariable[i] ELSE i],
      variableAtPosition |-> [i \in 0..(length - 1) |->
                                IF i < width + height THEN t.variableAtPosition[i] ELSE i]]

ApplyCuts(t, cuts) ==
  LET width == t.width
      height == t.height
      length == width + height + Len(cuts)
      CutRow(i, c) ==
        LET sign == cuts[i + 1][1]
            variable == cuts[i + 1][2]
            value == cuts[i + 1][3]
            pos == t.positionOfVariable[variable]
            row == pos - width
        IN IF pos < width
           THEN IF c = 0 THEN Num(sign * value)
                ELSE IF c = pos THEN Num(sign) ELSE Zero
           ELSE IF c = 0 THEN Mul(Num(sign), Sub(Num(value), Index(t, row, 0)))
                ELSE Mul(Num(-sign), Index(t, row, c))
  IN [matrix |-> [k \in 0..(width * (height + Len(cuts)) - 1) |->
                    IF k < width * height THEN t.matrix[k]
                    ELSE CutRow(k \div width - height, k % width)],
      width |-> width,
      height |-> height + Len(cuts),
      positionOfVariable |-> [i \in 0..(length - 1) |->
                                IF i < width + height THEN t.positionOfVariable[i] ELSE i],
      variableAtPosition |-> [i \in 0..(length - 1) |->
                                IF i < width + height THEN t.variableAtPosition[i] ELSE i]]

\* |val - Math.round(val)|
Frac(val) == AbsQ(Sub(val, Num(Round(val))))

\* mostFractionalVar, scanning intVars[i..] with the best so far
RECURSIVE MostFractionalVar(_, _, _, _)
MostFractionalVar(t, intVars, i, best) ==
  IF i > Len(intVars) THEN best
  ELSE LET intVar == intVars[i]
           row == t.positionOfVariable[intVar] - t.width
           val == Index(t, row, 0)
       IN IF row < 0 THEN MostFractionalVar(t, intVars, i + 1, best)
          ELSE IF Gt(Frac(val), best.frac)
          THEN MostFractionalVar(t, intVars, i + 1,
                                 [variable |-> intVar, value |-> val, frac |-> Frac(val)])
          ELSE MostFractionalVar(t, intVars, i + 1, best)

\* mostFractionalVar stopping after the first integer variable.
MostFractionalOfFirst(t, intVars) ==
  MostFractionalVar(t, SubSeq(intVars, 1, 1), 1,
                    [variable |-> 0, value |-> Zero, frac |-> Zero])

MostFractional(t, intVars) ==
  MostFractionalVar(t, intVars, 1, [variable |-> 0, value |-> Zero, frac |-> Zero])

\* The two branches pushed for the root solution.
InitialBranches(initResult, mf) ==
  << [eval |-> initResult, cuts |-> << <<-1, mf.variable, Ceil(mf.value)>> >>],
     [eval |-> initResult, cuts |-> << <<1, mf.variable, Floor(mf.value)>> >>] >>

\* cutsLower that keeps every cut of the parent.
CutsLowerKeepAll(cuts, variable, value) == cuts \o << <<1, variable, Floor(value)>> >>

\* cutsUpper and cutsLower of a fractional branch
CutsUpper(cuts, variable, value) ==
  SelectSeq(cuts, LAMBDA cut : ~(cut[2] = variable /\ cut[1] < 0))
    \o << <<-1, variable, Ceil(value)>> >>

CutsLower(cuts, variable, value) ==
  SelectSeq(cuts, LAMBDA cut : ~(cut[2] = variable /\ ~(cut[1] < 0)))
    \o << <<1, variable, Floor(value)>> >>

\* optimalThreshold with the tolerance on the wrong side of 1.
OptimalThresholdWrongSide(initResult, sign, tolerance) ==
  Mul(initResult, Add(One, Mul(Num(sign), tolerance)))

OptimalThreshold(initResult, sign, tolerance) ==
  Mul(initResult, Sub(One, Mul(Num(sign), tolerance)))

\* The clock read as if stopTime were always ahead at first: a timeout <= 0
\* is no longer certain to have passed.
ClockSamplesLate(timeout) == IF timeout = Inf THEN {FALSE} ELSE BOOLEAN

\* The clock read against a stop time that may lie anywhere.
ClockSamplesAny(timeout) == BOOLEAN

\* Date.now() >= stopTime, stopTime being timeout + Date.now() of an earlier
\* moment: certain for timeout <= 0, impossible for timeout = Infinity, and
\* up to the clock otherwise.
ClockSamples(timeout) ==
  IF Le(timeout, Zero) THEN {TRUE}
  ELSE IF timeout = Inf THEN {FALSE}
  ELSE BOOLEAN

\* The indexes of the queue the heap may hand out: those of least eval.
\* (Which of several equal ones is popped is the heap package's business.)
PopCandidates(branches) ==
  {i \in 1..Len(branches) : \A j \in 1..Len(branches) : ~Lt(branches[j].eval, branches[i].eval)}

RemoveAt(seq, i) == SubSeq(seq, 1, i - 1) \o SubSeq(seq, i + 1, Len(seq))

----------------------------------------------------------------------------
(* The models and options solve is called with.                            *)

\* Constraint objects
LessEq(value) == [equal |-> Absent, min |-> Absent, max |-> Num(value)]
GreaterEq(value) == [equal |-> Absent, min |-> Num(value), max |-> Absent]
EqualTo(value) == [equal |-> Num(value), min |-> Absent, max |-> Absent]

NoKeys == [all |-> FALSE, keys |-> {}]
AllKeys == [all |-> TRUE, keys |-> {}]
Keys(set) == [all |-> FALSE, keys |-> set]

\* The coefficient pairs (of x and of y), the bounds and the markings
\* (integers, binaries) of the models explored.
MaxBound == 2

ObjCoefs == {<<1, 1>>, <<0, 1>>, <<1, -1>>}
ConCoefs == {<<1, 1>>, <<3, 1>>, <<1, 3>>, <<-1, 3>>, <<2, -1>>, <<2, 0>>}
Constraints == {LessEq(v) : v \in 1..MaxBound} \cup {GreaterEq(1), EqualTo(1)}
Markings ==
  {<<NoKeys, NoKeys>>, <<AllKeys, NoKeys>>, <<Keys({"x"}), NoKeys>>, <<Keys({"x"}), Keys({"y"})>>}

\* Two variables x and y, an objective obj and two constraints c1 and c2.
Model(direction, obj, c1, c2, con1, con2, marks) ==
  [direction |-> direction,
   objective |-> "obj",
   constraints |-> << <<"c1", con1>>, <<"c2", con2>> >>,
   variables |->
     << <<"x", << <<"obj", Num(obj[1])>>, <<"c1", Num(c1[1])>>, <<"c2", Num(c2[1])>> >> >>,
        <<"y", << <<"obj", Num(obj[2])>>, <<"c1", Num(c1[2])>>, <<"c2", Num(c2[2])>> >> >> >>,
   integers |-> marks[1],
   binaries |-> marks[2]]

Models ==
  {Model(d, o, c1, c2, con1, con2, m) :
     d \in {"maximize", "minimize"}, o \in ObjCoefs, c1 \in ConCoefs, c2 \in ConCoefs,
     con1 \in Constraints, con2 \in Constraints, m \in Markings}

\* Pivot and iteration caps: those of the default options (large enough
\* never to bind on the models explored) and those that cut a run short.
ManyPivots == 8
FewPivots == 3
ManyIterations == 8
FewIterations == 1

\* applyDefaultOptions, with caps and a precision the exploration can afford
DefaultOptions ==
  [precision |-> Q(1, 100),
   checkCycles |-> FALSE,
   maxPivots |-> ManyPivots,
   tolerance |-> Zero,
   timeout |-> Inf,
   maxIterations |-> ManyIterations,
   includeZeroVariables |-> FALSE]

\* The options a model is solved with: the defaults and each option changed
\* alone; the options of branchAndCut only where it can run.
OptionsFor(m) ==
  {DefaultOptions,
   [DefaultOptions EXCEPT !.maxPivots = FewPivots],
   [DefaultOptions EXCEPT !.checkCycles = TRUE]}
  \cup
  (IF Columns(m, 1, FALSE) = <<>> THEN {}
   ELSE {[DefaultOptions EXCEPT !.maxIterations = FewIterations],
         [DefaultOptions EXCEPT !.tolerance = Q(1, 2)],
         [DefaultOptions EXCEPT !.timeout = Zero],
         [DefaultOptions EXCEPT !.timeout = Num(1)]})

----------------------------------------------------------------------------
(* One call of solve.                                                      *)

VARIABLES
  model,            \* the model passed to solve
  options,          \* the options, defaults applied
  tableau,          \* tabmod.tableau, the root tableau
  bufferA, bufferB, \* the two buffers of branchAndCut: the tableau last written in each
  candidateBuffer,  \* which buffer is candidateBuffer; the other is solutionBuffer
  bestTableau,      \* what bestTableau refers to: "root", "A" or "B"
  pc,               \* "phase1", "phase2": inside simplex; "bnc": at the while of branchAndCut; "done"
  ctx,              \* whose simplex run it is: "root" or "branch"
  iter,             \* iter of the running phase
  pivotHistory,     \* pivotHistory of the running phase
  branches,         \* the heap, as the sequence of branches in push order
  bcIter,           \* iter of branchAndCut
  timedout, solutionFound, bestEval, \* locals of branchAndCut
  cuts,             \* the cuts of the branch being evaluated
  relaxedEval,      \* the eval of the branch being evaluated (NaN before the first pop)
  initResult,       \* the root result passed to branchAndCut
  sol,              \* the Solution returned, once pc = "done"
  simplexRuns,      \* history: [status, result, ctx, cuts] of each simplex run that returned
  incumbents,       \* history: [eval, tableau] of each incumbent when it was recorded
  calls             \* history: [model, sol, runs] of the earlier calls of solve on this model

vars == <<model, options, tableau, bufferA, bufferB, candidateBuffer, bestTableau, pc, ctx,
          iter, pivotHistory, branches, bcIter, timedout, solutionFound, bestEval, cuts,
          relaxedEval,
          initResult, sol, simplexRuns, incumbents, calls>>

\* A buffer nothing was written to yet.
EmptyBuffer ==
  [matrix |-> <<>>, width |-> 0, height |-> 0,
   positionOfVariable |-> <<>>, variableAtPosition |-> <<>>]

NoSolution == [status |-> "none", result |-> NaN, variables |-> <<>>]

IntVars == Columns(model, 1, FALSE)

\* The tableau a reference stands for.
Deref(ref) == IF ref = "root" THEN tableau ELSE IF ref = "A" THEN bufferA ELSE bufferB

\* The tableau the running simplex works on.
Current == IF ctx = "root" THEN tableau ELSE Deref(candidateBuffer)

\* The TableauModel of the root whatever tableau is asked for.
TabmodOfRoot(t) ==
  [tableau |-> tableau, sign |-> ModelSign(model), variables |-> model.variables,
   integers |-> IntVars]

\* tabmod with its tableau replaced: { ...tabmod, tableau: t }
Tabmod(t) ==
  [tableau |-> t, sign |-> ModelSign(model), variables |-> model.variables,
   integers |-> IntVars]

\* solve is entered with `model` and `options`: the tableau is built and the
\* root simplex is about to start.
Entry ==
  /\ tableau = TableauModel(model).tableau
  /\ bufferA = EmptyBuffer
  /\ bufferB = EmptyBuffer
  /\ candidateBuffer = "A"
  /\ bestTableau = "root"
  /\ pc = "phase1"
  /\ ctx = "root"
  /\ iter = 0
  /\ pivotHistory = <<>>
  /\ branches = <<>>
  /\ bcIter = 0
  /\ timedout = FALSE
  /\ solutionFound = FALSE
  /\ bestEval = Inf
  /\ cuts = <<>>
  /\ relaxedEval = NaN
  /\ initResult = NaN
  /\ sol = NoSolution
  /\ simplexRuns = <<>>
  /\ incumbents = <<>>
  /\ calls = <<>>

Init ==
  /\ model \in Models
  /\ options \in OptionsFor(model)
  /\ Entry

\* The running simplex writes tableau t.
WriteCurrent(t) ==
  IF ctx = "root" THEN tableau' = t /\ UNCHANGED <<bufferA, bufferB>>
  ELSE IF candidateBuffer = "A" THEN bufferA' = t /\ UNCHANGED <<tableau, bufferB>>
  ELSE bufferB' = t /\ UNCHANGED <<tableau, bufferA>>

\* solve returns s.
Return(s) ==
  /\ sol' = s
  /\ pc' = "done"

\* The end of branchAndCut with the iteration cap left out of `unfinished`.
BranchAndCutReturnsOnClock(queue) ==
  LET threshold == OptimalThreshold(initResult, ModelSign(model), options.tolerance)
      unfinished == /\ timedout
                    /\ queue # <<>>
                    /\ Ge(bestEval, threshold)
      status == IF unfinished THEN "timedout"
                ELSE IF ~solutionFound THEN "infeasible"
                ELSE "optimal"
  IN /\ Return(SolutionOf(Tabmod(Deref(bestTableau)), status,
                          IF solutionFound THEN bestEval ELSE NaN, options))
     /\ branches' = queue
     /\ UNCHANGED <<model, options, tableau, bufferA, bufferB, candidateBuffer, bestTableau,
                    ctx, iter, pivotHistory, bcIter, timedout, solutionFound, bestEval,
                    cuts, relaxedEval, initResult, simplexRuns, incumbents>>

\* The end of branchAndCut with `unfinished` tested after solutionFound.
BranchAndCutReturnsFoundFirst(queue) ==
  LET threshold == OptimalThreshold(initResult, ModelSign(model), options.tolerance)
      unfinished == /\ (timedout \/ bcIter >= options.maxIterations)
                    /\ queue # <<>>
                    /\ Ge(bestEval, threshold)
      status == IF solutionFound THEN "optimal"
                ELSE IF unfinished THEN "timedout"
                ELSE "infeasible"
  IN /\ Return(SolutionOf(Tabmod(Deref(bestTableau)), status,
                          IF solutionFound THEN bestEval ELSE NaN, options))
     /\ branches' = queue
     /\ UNCHANGED <<model, options, tableau, bufferA, bufferB, candidateBuffer, bestTableau,
                    ctx, iter, pivotHistory, bcIter, timedout, solutionFound, bestEval,
                    cuts, relaxedEval, initResult, simplexRuns, incumbents>>

\* The end of branchAndCut, with `queue` left on the heap, and of solve.
BranchAndCutReturns(queue) ==
  LET threshold == OptimalThreshold(initResult, ModelSign(model), options.tolerance)
      unfinished == /\ (timedout \/ bcIter >= options.maxIterations)
                    /\ queue # <<>>
                    /\ Ge(bestEval, threshold)
      status == IF unfinished THEN "timedout"
                ELSE IF ~solutionFound THEN "infeasible"
                ELSE "optimal"
  IN /\ Return(SolutionOf(Tabmod(Deref(bestTableau)), status,
                          IF solutionFound THEN bestEval ELSE NaN, options))
     /\ branches' = queue
     /\ UNCHANGED <<model, options, tableau, bufferA, bufferB, candidateBuffer, bestTableau,
                    ctx, iter, pivotHistory, bcIter, timedout, solutionFound, bestEval,
                    cuts, relaxedEval, initResult, simplexRuns, incumbents>>

\* The root simplex returned: the rest of solve, up to the while of branchAndCut.
RootReturns(status, result) ==
  LET mf == MostFractional(tableau, IntVars)
  IN IF Len(IntVars) = 0 \/ status # "optimal"
     THEN /\ Return(SolutionOf(Tabmod(tableau), status, result, options))
          /\ UNCHANGED <<branches, timedout, initResult>>
     ELSE IF Le(mf.frac, options.precision)
     THEN /\ Return(SolutionOf(Tabmod(tableau), "optimal", result, options))
          /\ UNCHANGED <<branches, timedout, initResult>>
     ELSE /\ branches' = InitialBranches(result, mf)
          /\ timedout' \in ClockSamples(options.timeout)
          /\ initResult' = result
          /\ pc' = "bnc"
          /\ sol' = sol

\* No swap: the buffer of the incumbent stays the candidate buffer.
SameBuffer(ref) == ref

\* The swap of solutionBuffer and candidateBuffer: the buffer that becomes the
\* candidate buffer when buffer `ref` receives the incumbent.
OtherBuffer(ref) == IF ref = "A" THEN "B" ELSE "A"

\* A branch's simplex returned: the rest of the loop body.
BranchReturns(status, result) ==
  LET mf == MostFractional(Current, IntVars)
  IN /\ IF status = "optimal" /\ Lt(result, bestEval)
        THEN IF Le(mf.frac, options.precision)
             THEN /\ solutionFound' = TRUE
                  /\ bestEval' = result
                  /\ bestTableau' = candidateBuffer
                  /\ candidateBuffer' = OtherBuffer(candidateBuffer)
                  /\ incumbents' = Append(incumbents, [eval |-> result, tableau |-> Current])
                  /\ UNCHANGED branches
             ELSE /\ branches' = branches \o
                       << [eval |-> result, cuts |-> CutsUpper(cuts, mf.variable, mf.value)],
                          [eval |-> result, cuts |-> CutsLower(cuts, mf.variable, mf.value)] >>
                  /\ UNCHANGED <<solutionFound, bestEval, bestTableau, candidateBuffer,
                                 incumbents>>
        ELSE UNCHANGED <<branches, solutionFound, bestEval, bestTableau, candidateBuffer,
                         incumbents>>
     /\ timedout' \in ClockSamples(options.timeout)
     /\ bcIter' = bcIter + 1
     /\ pc' = "bnc"
     /\ UNCHANGED <<sol, initResult>>

SimplexReturns(status, result) ==
  /\ simplexRuns' = Append(simplexRuns, [status |-> status, result |-> result, ctx |-> ctx,
                                         cuts |-> cuts])
  /\ IF ctx = "root"
     THEN /\ RootReturns(status, result)
          /\ UNCHANGED <<bcIter, solutionFound, bestEval, bestTableau, candidateBuffer,
                         incumbents>>
     ELSE BranchReturns(status, result)
  /\ UNCHANGED <<model, options, tableau, bufferA, bufferB, ctx, iter, pivotHistory, cuts,
               relaxedEval>>

\* One iteration of the running phase, with what follows a return.
SimplexStep(out) ==
  IF out.kind = "pivot"
  THEN /\ WriteCurrent(out.tableau)
       /\ iter' = iter + 1
       /\ pivotHistory' = out.history
       /\ UNCHANGED <<model, options, candidateBuffer, bestTableau, pc, ctx, branches, bcIter,
                      timedout, solutionFound, bestEval, cuts, relaxedEval, initResult, sol, simplexRuns,
                      incumbents>>
  ELSE IF out.kind = "phase2"
  THEN /\ pc' = "phase2"
       /\ iter' = 0
       /\ pivotHistory' = <<>>
       /\ UNCHANGED <<model, options, tableau, bufferA, bufferB, candidateBuffer, bestTableau,
                      ctx, branches, bcIter, timedout, solutionFound, bestEval, cuts, relaxedEval,
                      initResult, sol, simplexRuns, incumbents>>
  ELSE SimplexReturns(out.status, out.result)

Phase1Step ==
  /\ pc = "phase1"
  /\ SimplexStep(Phase1Iter(Current, options, iter, pivotHistory))
  /\ UNCHANGED calls

Phase2Step ==
  /\ pc = "phase2"
  /\ SimplexStep(Phase2Iter(Current, options, iter, pivotHistory))
  /\ UNCHANGED calls

\* The while of branchAndCut: its test, the pop, the break, applyCuts.
BranchStep ==
  /\ pc = "bnc"
  /\ UNCHANGED calls
  /\ LET threshold == OptimalThreshold(initResult, ModelSign(model), options.tolerance)
     IN IF /\ bcIter < options.maxIterations
           /\ branches # <<>>
           /\ Ge(bestEval, threshold)
           /\ ~timedout
        THEN \E i \in PopCandidates(branches) :
               IF Gt(branches[i].eval, bestEval)
               THEN BranchAndCutReturns(RemoveAt(branches, i))
               ELSE /\ branches' = RemoveAt(branches, i)
                    /\ cuts' = branches[i].cuts
                    /\ relaxedEval' = branches[i].eval
                    /\ IF candidateBuffer = "A"
                       THEN bufferA' = ApplyCuts(tableau, branches[i].cuts) /\ bufferB' = bufferB
                       ELSE bufferB' = ApplyCuts(tableau, branches[i].cuts) /\ bufferA' = bufferA
                    /\ pc' = "phase1"
                    /\ ctx' = "branch"
                    /\ iter' = 0
                    /\ pivotHistory' = <<>>
                    /\ UNCHANGED <<model, options, tableau, candidateBuffer, bestTableau,
                                   bcIter, timedout, solutionFound, bestEval, initResult, sol,
                                   simplexRuns, incumbents>>
        ELSE BranchAndCutReturns(branches)

Next == Phase1Step \/ Phase2Step \/ BranchStep

Spec == Init /\ [][Next]_vars

----------------------------------------------------------------------------
(* What the claims speak of: the model's own meaning, independent of the   *)
(* tableau.  A point assigns a number to each variable, in model order.    *)

Done == pc = "done"

Precision == options.precision

NumVariables == Len(model.variables)

\* coef_i(key): the coefficient of variable i for a key, 0 when it has none
CoefOf(i, key) ==
  LET k == LastCoef(model.variables[i][2], key) IN IF k = Absent THEN Zero ELSE k

\* sum_i point_i * coefs_i, over the variables i..N
RECURSIVE DotFrom(_, _, _)
DotFrom(point, coefs, i) ==
  IF i > NumVariables THEN Zero
  ELSE Add(Mul(point[i], coefs[i]), DotFrom(point, coefs, i + 1))

Dot(point, coefs) == DotFrom(point, coefs, 1)

\* The objective's coefficients, variable by variable.
ObjectiveRow ==
  [i \in 1..NumVariables |->
     IF model.objective = "absent" THEN Zero ELSE CoefOf(i, model.objective)]

ObjectiveOf(point) == Dot(point, ObjectiveRow)

\* The bounds a Constraint object states.
LowerOf(con) == Coalesce(con.equal, Coalesce(con.min, NegInf))
UpperOf(con) == Coalesce(con.equal, Coalesce(con.max, Inf))

\* Every entry of model.constraints as [coefs, lower, upper].
ConstraintTable ==
  [e \in 1..Len(model.constraints) |->
     [coefs |-> [i \in 1..NumVariables |-> CoefOf(i, model.constraints[e][1])],
      lower |-> LowerOf(model.constraints[e][2]),
      upper |-> UpperOf(model.constraints[e][2])]]

\* lower - slack <= sum_i point_i * coef_i <= upper + slack, for every entry
HoldIn(table, point, slack) ==
  \A e \in DOMAIN table :
    /\ table[e].lower = NegInf \/ Le(Sub(table[e].lower, slack), Dot(point, table[e].coefs))
    /\ table[e].upper = Inf \/ Le(Dot(point, table[e].coefs), Add(table[e].upper, slack))

ConstraintsHold(point, slack) == HoldIn(ConstraintTable, point, slack)

\* The integer and binary restrictions hold at the point within slack.
RestrictionsHold(point, slack) ==
  \A i \in 1..NumVariables :
    /\ IsInteger(model, i) => Le(Frac(point[i]), slack)
    /\ IsBinary(model, i) => Le(point[i], Add(One, slack))

\* The value a solution reports for variable i: the one listed under its key
\* (keys are distinct in the models explored), 0 for a variable left out.
Reported(s, i) ==
  LET at == {j \in 1..Len(s.variables) : s.variables[j][1] = model.variables[i][1]}
  IN IF at = {} THEN Zero ELSE s.variables[CHOOSE j \in at : TRUE][2]

ReportedPoint(s) == [i \in 1..NumVariables |-> Reported(s, i)]

\* The assignments the claims are tested against: halves up to MaxValue for
\* every variable, whole numbers for a variable marked integer or binary.
MaxValue == 4
Halves == {Q(k, 2) : k \in 0..(2 * MaxValue)}
Grid ==
  {point \in [1..NumVariables -> Halves] :
     \A i \in 1..NumVariables : IsInteger(model, i) => point[i][2] = 1}

\* The feasible assignments of the grid: non-negative (as all of the grid),
\* every constraint and every integer and binary restriction satisfied exactly.
FeasibleGrid ==
  LET table == ConstraintTable
  IN {point \in Grid : HoldIn(table, point, Zero) /\ RestrictionsHold(point, Zero)}

\* How much better than `result` the objective is at the point, in the
\* model's direction.
Gain(point, result) ==
  IF ModelSign(model) = 1 THEN Sub(ObjectiveOf(point), result)
  ELSE Sub(result, ObjectiveOf(point))

\* The directions a feasible set may be unbounded in: moving along d >= 0
\* from a feasible point stays feasible for ever.
MaxStep == 3
Directions == [1..NumVariables -> {Num(k) : k \in 0..MaxStep}]

Recession(d) ==
  \A e \in 1..Len(model.constraints) :
    LET row == ConstraintTable[e]
    IN /\ row.lower = NegInf \/ Ge(Dot(d, row.coefs), Zero)
       /\ row.upper = Inf \/ Le(Dot(d, row.coefs), Zero)

Improving(d) == Gt(Mul(Num(ModelSign(model)), ObjectiveOf(d)), Zero)

\* The simplex runs that ended "cycled".
CycledRuns == {i \in 1..Len(simplexRuns) : simplexRuns[i].status = "cycled"}

\* The objective of the root relaxation, B.
RootObjective == Mul(Num(-ModelSign(model)), simplexRuns[1].result)

----------------------------------------------------------------------------
(* The claims.                                                             *)

RoundingSlack(row) ==
  Mul(Precision, Add(One, Dot([i \in 1..NumVariables |-> One],
                              [i \in 1..NumVariables |-> AbsQ(row.coefs[i])])))

C3_TrueOptimum ==
  (Done /\ sol.status = "optimal" /\ options.tolerance = Zero) =>
    \A point \in FeasibleGrid : Le(Gain(point, sol.result), Precision)

\* C4: an infeasible verdict means no feasible assignment exists.
C4_InfeasibleIsInfeasible ==
  (Done /\ sol.status = "infeasible") => FeasibleGrid = {}

\* C5: an unbounded verdict means feasible assignments of arbitrarily good
\* objective exist, integer and binary restrictions included.
C5_UnboundedIsUnbounded ==
  (Done /\ sol.status = "unbounded") =>
    /\ FeasibleGrid # {}
    /\ \E d \in Directions : Recession(d) /\ Improving(d)

C7_CycledIsReported ==
  (Done /\ CycledRuns # {}) => sol.status = "cycled"

\* branchAndCut reached its while: the root was optimal and fractional.
SearchStarted == ~IsNaN(initResult)

Threshold == OptimalThreshold(initResult, ModelSign(model), options.tolerance)

\* The incumbent of least eval among those recorded.
BestIncumbent ==
  incumbents[CHOOSE i \in DOMAIN incumbents :
               \A j \in DOMAIN incumbents : Le(incumbents[i].eval, incumbents[j].eval)]

\* The search stopped on its budget: the clock or the iteration cap was
\* reached with branches still queued and no incumbent beating the threshold.
BudgetStop ==
  /\ Done
  /\ SearchStarted
  /\ timedout \/ bcIter >= options.maxIterations
  /\ branches # <<>>
  /\ \A i \in DOMAIN incumbents : Ge(incumbents[i].eval, Threshold)

\* C8: a search stopped on its budget returns "timedout" with the best
\* incumbent recorded: its objective as result and the variables of the
\* tableau that produced it; NaN and no variables when there is none.
C8_TimedoutCarriesIncumbent ==
  BudgetStop =>
    /\ sol.status = "timedout"
    /\ IF incumbents = <<>>
       THEN IsNaN(sol.result) /\ sol.variables = <<>>
       ELSE /\ sol.result = Mul(Num(-ModelSign(model)), BestIncumbent.eval)
            /\ sol.variables = SolutionVariables(Tabmod(BestIncumbent.tableau), Precision, 0)

\* A search stopped on its budget after it recorded an incumbent.
C8_StoppedWithIncumbent ==
  /\ BudgetStop
  /\ incumbents # <<>>
  /\ sol.status = "timedout"

\* The root relaxation is optimal and not integral.
RootFractional ==
  /\ simplexRuns # <<>>
  /\ simplexRuns[1].status = "optimal"
  /\ Gt(MostFractional(tableau, IntVars).frac, Precision)

\* C9: with timeout <= 0 a model with integer variables whose root
\* relaxation is optimal and fractional evaluates no branch and returns
\* "timedout" with NaN and no variables.
C9_ZeroTimeout ==
  (Done /\ Le(options.timeout, Zero) /\ IntVars # <<>> /\ RootFractional) =>
    /\ bcIter = 0
    /\ Len(simplexRuns) = 1
    /\ sol = [status |-> "timedout", result |-> NaN, variables |-> <<>>]

\* A fractional root met with a timeout that had already passed.
C9_FractionalRootNoTime ==
  /\ Done
  /\ Le(options.timeout, Zero)
  /\ IntVars # <<>>
  /\ RootFractional
  /\ sol.status = "timedout"

\* C10: an integer model solved with tolerance t returns "timedout" or an
\* objective R with |R - R*| <= t * |B|, B the objective of the root
\* relaxation and R* the true integer optimum: no feasible assignment is
\* better than R by more than t * |B|.
C10_WithinTolerance ==
  (Done /\ IntVars # <<>> /\ sol.status = "optimal") =>
    \A point \in FeasibleGrid :
      Le(Gain(point, sol.result), Mul(options.tolerance, AbsQ(RootObjective)))

\* An integer model whose root relaxation is optimal with objective B > 0,
\* solved with tolerance 0.5.
HalfTolerance ==
  /\ IntVars # <<>>
  /\ options.tolerance = Q(1, 2)
  /\ simplexRuns # <<>>
  /\ simplexRuns[1].status = "optimal"
  /\ Gt(RootObjective, Zero)

\* A simplex run of a branch is under way.
BranchRunning == pc \in {"phase1", "phase2"} /\ ctx = "branch"

\* C11: an integer model of root objective B > 0 solved with tolerance 0.5
\* returns "optimal" with R >= 0.5 * B, and no branch is evaluated once an
\* incumbent reaches that bound.
C11_HalfToleranceOptimal ==
  HalfTolerance =>
    /\ Done => sol.status = "optimal" /\ Ge(sol.result, Mul(Q(1, 2), RootObjective))
    /\ BranchRunning =>
         \A i \in DOMAIN incumbents :
           Lt(Mul(Num(-ModelSign(model)), incumbents[i].eval), Mul(Q(1, 2), RootObjective))

\* R is strictly within the tolerance 0.5 of the root objective B > 0:
\* above 0.5 * B when maximizing, below 1.5 * B when minimizing.
WithinHalf(result) ==
  IF ModelSign(model) = 1 THEN Gt(result, Mul(Q(1, 2), RootObjective))
  ELSE Lt(result, Mul(Q(3, 2), RootObjective))

\* The objective of incumbent i.
IncumbentObjective(i) == Mul(Num(-ModelSign(model)), incumbents[i].eval)

\* C11 (as the code has it): with tolerance 0.5 and B > 0, no branch is
\* evaluated once an incumbent strictly within the tolerance of B is
\* recorded, and solve then returns it as "optimal"; an "optimal" result
\* outside the tolerance is returned only when no queued branch has a better
\* bound.
C11_StopsWithinHalf ==
  HalfTolerance =>
    /\ BranchRunning =>
         \A i \in DOMAIN incumbents : ~WithinHalf(IncumbentObjective(i))
    /\ Done =>
         \A i \in DOMAIN incumbents :
           WithinHalf(IncumbentObjective(i)) =>
             sol.status = "optimal" /\ sol.result = IncumbentObjective(i)
    /\ (Done /\ sol.status = "optimal" /\ ~WithinHalf(sol.result)) =>
         \A b \in DOMAIN branches :
           Ge(branches[b].eval, Mul(Num(-ModelSign(model)), sol.result))

\* The search stopped on an incumbent within the tolerance while a branch of
\* better bound was still queued.
C11_StoppedEarly ==
  /\ HalfTolerance
  /\ Done
  /\ sol.status = "optimal"
  /\ WithinHalf(sol.result)
  /\ \E b \in DOMAIN branches : Lt(branches[b].eval, bestEval)

----------------------------------------------------------------------------
(* Solving models whose variable keys repeat, with and without             *)
(* includeZeroVariables.                                                   *)

\* The columns (coefficients for obj, c1, c2) a variable may have.
OrderColumns == {<<1, 1, 0>>, <<1, 0, 1>>, <<0, 2, 1>>, <<1, 3, 2>>}

\* Three variables keyed k[1], k[2], k[3], equal keys allowed.
OrderModel(direction, k, col, con1, con2, marks) ==
  [direction |-> direction,
   objective |-> "obj",
   constraints |-> << <<"c1", con1>>, <<"c2", con2>> >>,
   variables |->
     [i \in 1..3 |->
        <<k[i], << <<"obj", Num(col[i][1])>>, <<"c1", Num(col[i][2])>>,
                   <<"c2", Num(col[i][3])>> >> >>],
   integers |-> marks[1],
   binaries |-> marks[2]]

OrderModels ==
  {OrderModel(d, k, col, con1, con2, m) :
     d \in {"maximize", "minimize"}, k \in [1..3 -> {"x", "y"}],
     col \in [1..3 -> OrderColumns],
     con1 \in {LessEq(v) : v \in 1..MaxBound}, con2 \in {LessEq(MaxBound), GreaterEq(1)},
     m \in {<<NoKeys, NoKeys>>, <<AllKeys, NoKeys>>, <<Keys({"x"}), NoKeys>>}}

OrderOptions == {[DefaultOptions EXCEPT !.includeZeroVariables = flag] : flag \in BOOLEAN}

InitOrder ==
  /\ model \in OrderModels
  /\ options \in OrderOptions
  /\ Entry

SpecOrder == InitOrder /\ [][Next]_vars

\* The keys of a list of [key, value] pairs, in order.
KeysOf(list) == [i \in 1..Len(list) |-> list[i][1]]

RECURSIVE IsSubsequence(_, _)
IsSubsequence(sub, seq) ==
  IF sub = <<>> THEN TRUE
  ELSE IF seq = <<>> THEN FALSE
  ELSE IF Head(sub) = Head(seq) THEN IsSubsequence(Tail(sub), Tail(seq))
  ELSE IsSubsequence(sub, Tail(seq))

----------------------------------------------------------------------------
(* solve called again on the same model with the same options.             *)

\* How many calls of solve on one model are followed.
MaxCalls == 2

\* solve returned and is called again: nothing of the earlier call is kept
\* (solve has only locals), the model and the options are passed as they are.
SolveAgain ==
  /\ pc = "done"
  /\ Len(calls) + 1 < MaxCalls
  /\ calls' = Append(calls, [model |-> model, sol |-> sol, runs |-> simplexRuns])
  /\ tableau' = TableauModel(model).tableau
  /\ bufferA' = EmptyBuffer
  /\ bufferB' = EmptyBuffer
  /\ candidateBuffer' = "A"
  /\ bestTableau' = "root"
  /\ pc' = "phase1"
  /\ ctx' = "root"
  /\ iter' = 0
  /\ pivotHistory' = <<>>
  /\ branches' = <<>>
  /\ bcIter' = 0
  /\ timedout' = FALSE
  /\ solutionFound' = FALSE
  /\ bestEval' = Inf
  /\ cuts' = <<>>
  /\ relaxedEval' = NaN
  /\ initResult' = NaN
  /\ sol' = NoSolution
  /\ simplexRuns' = <<>>
  /\ incumbents' = <<>>
  /\ UNCHANGED <<model, options>>

NextAgain == Next \/ SolveAgain

\* The models solved again: those whose every variable is an integer, the
\* ones branchAndCut searches.
AgainModels == {m \in Models : m.integers.all}

InitAgain ==
  /\ model \in AgainModels
  /\ options \in OptionsFor(model)
  /\ Entry

SpecAgain == InitAgain /\ [][NextAgain]_vars

\* The branches evaluated by a call, in order, each named by its cuts.
BranchOrder(runs) == [i \in DOMAIN runs |-> runs[i].cuts]

\* Earlier call c was handed its branches by the heap in the order this call
\* was (the heap is a package of its own; it has no clock and no state kept
\* between two heaps).
SameOrder(c) == BranchOrder(calls[c].runs) = BranchOrder(simplexRuns)

ClockFree == options.timeout = Inf \/ Le(options.timeout, Zero)

----------------------------------------------------------------------------
(* The result against the objective of the reported variables.             *)

\* Objective coefficients of very different sizes, and constraint
\* coefficients that leave thirds and sevenths in the tableau.
ScaleObjCoefs == {<<1, 1>>, <<4000, 1>>, <<7, 4000>>, <<4000, -4000>>}
ScaleConCoefs == {<<3, 1>>, <<1, 3>>, <<-1, 3>>, <<7, 3>>}

\* The models of the family with these coefficients, and the same without an
\* objective.
ScaleModels ==
  LET with == {Model(d, o, c1, c2, con1, con2, m) :
                 d \in {"maximize", "minimize"}, o \in ScaleObjCoefs,
                 c1 \in ScaleConCoefs, c2 \in ScaleConCoefs,
                 con1 \in {LessEq(v) : v \in 1..MaxBound}, con2 \in Constraints,
                 m \in Markings}
  IN with \cup {[m EXCEPT !.objective = "absent"] : m \in with}

InitScale ==
  /\ model \in ScaleModels
  /\ options \in OptionsFor(model)
  /\ Entry

SpecScale == InitScale /\ [][Next]_vars

\* solve returned a result with variables: "optimal", or "timedout" with an
\* incumbent.
HasResult ==
  /\ Done
  /\ sol.status = "optimal" \/ (sol.status = "timedout" /\ ~IsNaN(sol.result))

\* |sum_i x_i * coef_i(objective) - result| of the returned solution
ObjectiveGap == AbsQ(Sub(ObjectiveOf(ReportedPoint(sol)), sol.result))

\* What rounding every reported value and the result to the precision can
\* move the sum by: precision * (1 + sum_i |coef_i(objective)|).
ObjectiveSlack ==
  Mul(Precision, Add(One, Dot([i \in 1..NumVariables |-> One],
                              [i \in 1..NumVariables |-> AbsQ(ObjectiveRow[i])])))

----------------------------------------------------------------------------
(* tableauModel on its own: the models it is given and the tableau built.  *)

\* { min: lower, max: upper } (inRange), {} and an object with every field
InRange(lower, upper) == [equal |-> Absent, min |-> Num(lower), max |-> Num(upper)]
NoBound == [equal |-> Absent, min |-> Absent, max |-> Absent]
EqualOver == [equal |-> Num(1), min |-> Num(2), max |-> Num(0)]

TabConstraints ==
  {NoBound, LessEq(1), LessEq(2), GreaterEq(1), GreaterEq(2), EqualTo(1), InRange(0, 2),
   EqualOver}

\* The longest constraints sequence explored.
MaxConstraints == 3

\* The constraints: sequences of [key, Constraint], keys repeated or not.
TabConstraintLists ==
  UNION {[1..n -> {"c1", "c2"} \X TabConstraints] : n \in 0..MaxConstraints}

\* Two variables; y has no coefficient for c2 and two for c1.
TabVariables ==
  << <<"x", << <<"obj", Num(1)>>, <<"c1", Num(1)>>, <<"c2", Num(3)>> >> >>,
     <<"y", << <<"obj", Num(-2)>>, <<"c1", Num(2)>>, <<"c1", Num(-1)>> >> >> >>

TabMarkings ==
  {<<NoKeys, NoKeys>>, <<AllKeys, NoKeys>>, <<Keys({"y"}), Keys({"x"})>>,
   <<Keys({"x"}), Keys({"x"})>>, <<Keys({"x"}), AllKeys>>}

TabModels ==
  {[direction |-> d, objective |-> o, constraints |-> cons, variables |-> TabVariables,
    integers |-> m[1], binaries |-> m[2]] :
     d \in {"maximize", "minimize", "absent"}, o \in {"obj", "c1", "absent"},
     cons \in TabConstraintLists, m \in TabMarkings}

\* tableauModel is about to be called on `model`.
InitTableau ==
  /\ model \in TabModels
  /\ options = DefaultOptions
  /\ tableau = EmptyBuffer
  /\ bufferA = EmptyBuffer
  /\ bufferB = EmptyBuffer
  /\ candidateBuffer = "A"
  /\ bestTableau = "root"
  /\ pc = "tableauModel"
  /\ ctx = "root"
  /\ iter = 0
  /\ pivotHistory = <<>>
  /\ branches = <<>>
  /\ bcIter = 0
  /\ timedout = FALSE
  /\ solutionFound = FALSE
  /\ bestEval = Inf
  /\ cuts = <<>>
  /\ relaxedEval = NaN
  /\ initResult = NaN
  /\ sol = NoSolution
  /\ simplexRuns = <<>>
  /\ incumbents = <<>>
  /\ calls = <<>>

\* const tabmod = tableauModel(model)
BuildTableau ==
  /\ pc = "tableauModel"
  /\ tableau' = TableauModel(model).tableau
  /\ pc' = "built"
  /\ UNCHANGED <<model, options, bufferA, bufferB, candidateBuffer, bestTableau, ctx, iter,
                 pivotHistory, branches, bcIter, timedout, solutionFound, bestEval, cuts, relaxedEval,
                 initResult, sol, simplexRuns, incumbents, calls>>

NextTableau == BuildTableau

SpecTableau == InitTableau /\ [][NextTableau]_vars

Built == pc = "built"

\* The model with other constraints.
WithConstraints(cons) == [model EXCEPT !.constraints = cons]

\* Row r of a tableau, column 0 (the right-hand side) first.
Row(t, r) == [c \in 0..(t.width - 1) |-> Index(t, r, c)]

\* The rows of a tableau, top to bottom.
Rows(t) == [r \in 1..t.height |-> Row(t, r - 1)]

\* The constraint keys in the order of their first occurrence.
RECURSIVE FirstKeys(_, _)
FirstKeys(cons, seen) ==
  IF cons = <<>> THEN seen
  ELSE FirstKeys(Tail(cons),
                 IF \E i \in DOMAIN seen : seen[i] = Head(cons)[1] THEN seen
                 ELSE Append(seen, Head(cons)[1]))

ConstraintKeys == FirstKeys(model.constraints, <<>>)

\* The entries of a key, and the intersection of their bounds.
EntriesOf(key) == {e \in DOMAIN model.constraints : model.constraints[e][1] = key}

LowerBound(key) ==
  LET lowers == {LowerOf(model.constraints[e][2]) : e \in EntriesOf(key)}
  IN CHOOSE l \in lowers : \A o \in lowers : Le(o, l)

UpperBound(key) ==
  LET uppers == {UpperOf(model.constraints[e][2]) : e \in EntriesOf(key)}
  IN CHOOSE u \in uppers : \A o \in uppers : Le(u, o)

\* The finite sides of a key's bounds, and those of the keys before the j-th.
Sides(key) ==
  (IF IsFinite(UpperBound(key)) THEN 1 ELSE 0) + (IF IsFinite(LowerBound(key)) THEN 1 ELSE 0)

RECURSIVE SidesBefore(_)
SidesBefore(j) == IF j = 1 THEN 0 ELSE SidesBefore(j - 1) + Sides(ConstraintKeys[j - 1])

\* The rows an upper bound, a lower bound and a binary variable stand for.
UpperRow(key) ==
  [c \in 0..NumVariables |-> IF c = 0 THEN UpperBound(key) ELSE CoefOf(c, key)]

LowerRow(key) ==
  [c \in 0..NumVariables |-> IF c = 0 THEN Neg(LowerBound(key)) ELSE Neg(CoefOf(c, key))]

BinaryRow(i) == [c \in 0..NumVariables |-> IF c = 0 \/ c = i THEN One ELSE Zero]

\* The variables marked binary, in variable order.
RECURSIVE BinariesFrom(_)
BinariesFrom(i) ==
  IF i > NumVariables THEN <<>>
  ELSE (IF model.binaries.all \/ model.variables[i][1] \in model.binaries.keys
        THEN <<i>> ELSE <<>>) \o BinariesFrom(i + 1)

\* The constraints without the entries of a key.
RECURSIVE WithoutKey(_, _)
WithoutKey(cons, key) ==
  IF cons = <<>> THEN <<>>
  ELSE (IF Head(cons)[1] = key THEN <<>> ELSE <<Head(cons)>>) \o WithoutKey(Tail(cons), key)

\* A sequence without its elements from..(from + count - 1).
Without(seq, from, count) ==
  SubSeq(seq, 1, from - 1) \o SubSeq(seq, from + count, Len(seq))

\* C15: the tableau is N + 1 wide and 1 + finite sides + binaries high; each
\* constraint key has its rows from row 1 on in first-occurrence order, the
\* upper-bound row before the lower-bound row, then one row per binary
\* variable in variable order; without one constraint the tableau model is
\* the same with that constraint's rows deleted.
C15_Layout ==
  Built =>
    LET numConstraints == 1 + SidesBefore(Len(ConstraintKeys) + 1)
        binaries == BinariesFrom(1)
    IN /\ tableau.width = NumVariables + 1
       /\ tableau.height = numConstraints + Len(binaries)
       /\ \A j \in DOMAIN ConstraintKeys :
            LET key == ConstraintKeys[j]
                row == 1 + SidesBefore(j)
            IN /\ IsFinite(UpperBound(key)) => Row(tableau, row) = UpperRow(key)
               /\ IsFinite(LowerBound(key)) =>
                    Row(tableau, row + Sides(key) - 1) = LowerRow(key)
       /\ \A b \in DOMAIN binaries :
            Row(tableau, numConstraints + b - 1) = BinaryRow(binaries[b])
       /\ \A j \in DOMAIN ConstraintKeys :
            LET key == ConstraintKeys[j]
                less == TableauModel(WithConstraints(WithoutKey(model.constraints, key)))
                all == TableauModel(model)
                numVars == tableau.width + tableau.height - Sides(key)
            IN /\ Rows(less.tableau) = Without(Rows(tableau), 2 + SidesBefore(j), Sides(key))
               /\ less.tableau.width = tableau.width
               /\ less.tableau.height = tableau.height - Sides(key)
               /\ less.tableau.positionOfVariable = [i \in 0..(numVars - 1) |-> i]
               /\ less.tableau.variableAtPosition = [i \in 0..(numVars - 1) |-> i]
               /\ less.sign = all.sign
               /\ less.variables = all.variables
               /\ less.integers = all.integers

\* A tableau was built with a constraint of two rows between two others, one
\* of them given by two entries, and a row for a binary variable.
C15_TwoSidedBetween ==
  /\ Built
  /\ Len(ConstraintKeys) = 2
  /\ Len(model.constraints) = 3
  /\ model.constraints[1][1] = model.constraints[3][1]
  /\ Sides(ConstraintKeys[1]) = 2
  /\ Sides(ConstraintKeys[2]) = 1
  /\ BinariesFrom(1) = <<1>>
  /\ tableau.height = 5

\* { min: L } for { max: L } and back
Swapped(con) == [equal |-> Absent, min |-> con.max, max |-> con.min]

\* Entry e is one-sided, { min: L } or { max: L }, and alone under its key.
OneSided(e) ==
  LET con == model.constraints[e][2]
  IN /\ con.equal = Absent
     /\ (con.min = Absent) # (con.max = Absent)
     /\ EntriesOf(model.constraints[e][1]) = {e}

\* The position of a key in ConstraintKeys.
KeyIndex(key) == CHOOSE j \in DOMAIN ConstraintKeys : ConstraintKeys[j] = key

\* A tableau with row r negated.
NegatedRow(t, r) ==
  [t EXCEPT !.matrix = [k \in DOMAIN t.matrix |->
                          IF k \div t.width = r THEN Neg(t.matrix[k]) ELSE t.matrix[k]]]

\* C16: the row of a finite upper bound U on key k has U in column 0 and
\* coef_i(k) in the column of variable i, the row of a finite lower bound L
\* has -L and -coef_i(k); with a one-sided { min: L } replaced by { max: L },
\* or the reverse, the tableau model is the same with that row negated.
C16_RowEncoding ==
  Built =>
    /\ \A j \in DOMAIN ConstraintKeys :
         LET key == ConstraintKeys[j]
             upper == 1 + SidesBefore(j)
             lower == IF IsFinite(UpperBound(key)) THEN upper + 1 ELSE upper
         IN /\ IsFinite(UpperBound(key)) =>
                 /\ Index(tableau, upper, 0) = UpperBound(key)
                 /\ \A i \in 1..NumVariables : Index(tableau, upper, i) = CoefOf(i, key)
            /\ IsFinite(LowerBound(key)) =>
                 /\ Index(tableau, lower, 0) = Neg(LowerBound(key))
                 /\ \A i \in 1..NumVariables : Index(tableau, lower, i) = Neg(CoefOf(i, key))
    /\ \A e \in DOMAIN model.constraints :
         OneSided(e) =>
           LET entry == model.constraints[e]
               swapped == TableauModel(WithConstraints(
                            [model.constraints EXCEPT ![e] = <<entry[1], Swapped(entry[2])>>]))
               row == 1 + SidesBefore(KeyIndex(entry[1]))
           IN swapped = [TableauModel(model) EXCEPT !.tableau = NegatedRow(tableau, row)]

\* A tableau was built from { min: L } alone under its key, after another
\* constraint: its row holds -L and the negated coefficients.
C16_LowerBoundRow ==
  /\ Built
  /\ Len(model.constraints) = 2
  /\ OneSided(2)
  /\ model.constraints[2][2].min # Absent
  /\ Sides(model.constraints[1][1]) = 2
  /\ Row(tableau, 3) = LowerRow(model.constraints[2][1])
  /\ Index(tableau, 3, 1) # Zero

\* The single entry two entries of one key amount to:
\* { max: min(U1, U2), min: max(L1, L2) }
Intersection(c1, c2) ==
  [equal |-> Absent,
   min |-> MaxQ(LowerOf(c1), LowerOf(c2)),
   max |-> MinQ(UpperOf(c1), UpperOf(c2))]

\* The constraints with entry j merged into the earlier entry i of its key.
MergedAt(i, j) ==
  LET cons == model.constraints
      single == <<cons[i][1], Intersection(cons[i][2], cons[j][2])>>
  IN Without([cons EXCEPT ![i] = single], j, 1)

\* An entry with its equal, if any, written out as both bounds.
EqualAsBounds(con) ==
  IF con.equal = Absent THEN con
  ELSE [equal |-> Absent, min |-> con.equal, max |-> con.equal]

\* C17: two entries of one key give the tableau model of the single entry
\* { max: min(U1, U2), min: max(L1, L2) } at the place of the first, and an
\* entry's equal stands for both its bounds whatever its min and max are.
C17_MergedByIntersection ==
  Built =>
    /\ \A i, j \in DOMAIN model.constraints :
         (i < j /\ model.constraints[i][1] = model.constraints[j][1]) =>
           TableauModel(WithConstraints(MergedAt(i, j))) = TableauModel(model)
    /\ \A e \in DOMAIN model.constraints :
         TableauModel(WithConstraints(
           [model.constraints EXCEPT ![e] = <<@[1], EqualAsBounds(@[2])>>])) = TableauModel(model)

\* A tableau was built from two entries of one key around another key, the
\* later entry tightening the upper bound of the first, and from an equal
\* given with a min above it.
C17_TightenedLater ==
  /\ Built
  /\ Len(model.constraints) = 3
  /\ model.constraints[1][1] = model.constraints[3][1]
  /\ model.constraints[2] = <<"c2", EqualOver>>
  /\ model.constraints[1][2] = InRange(0, 2)
  /\ model.constraints[3][2] = LessEq(1)
  /\ tableau.height = 5
  /\ Index(tableau, 1, 0) = Num(1)
  /\ Index(tableau, 4, 0) = Num(-1)

\* The other direction; an absent direction is maximize.
Flipped(direction) == IF direction = "minimize" THEN "maximize" ELSE "minimize"

\* C18: with the direction flipped (an absent direction meaning maximize)
\* the tableau model is the same except that row 0 and sign are negated;
\* sign is +1 for maximize and -1 for minimize.
C18_DirectionDuality ==
  Built =>
    LET given == TableauModel(model)
        flipped == TableauModel([model EXCEPT !.direction = Flipped(@)])
    IN /\ flipped = [given EXCEPT !.tableau = NegatedRow(tableau, 0), !.sign = -@]
       /\ given.tableau = tableau
       /\ given.sign = (IF model.direction = "minimize" THEN -1 ELSE 1)
       /\ flipped.sign = (IF model.direction = "minimize" THEN 1 ELSE -1)

\* A tableau was built for a model without a direction, with an objective
\* and constraint rows: row 0 holds the objective's coefficients as given.
C18_AbsentDirection ==
  /\ Built
  /\ model.direction = "absent"
  /\ model.objective = "obj"
  /\ tableau.height = 3
  /\ Index(tableau, 0, 2) = Num(-2)

\* The model with other integers and binaries.
WithMarks(integers, binaries) == [model EXCEPT !.integers = integers, !.binaries = binaries]

\* How often column i is on a list of columns.
Count(list, i) == Cardinality({p \in DOMAIN list : list[p] = i})

\* C19: a variable marked binary, alone or with integer, is once on the
\* integer list and has one row of its own (1 in column 0 and in its column);
\* integers = [k], binaries = [k] gives the tableau model of integers = [],
\* binaries = [k]; binaries = true makes every variable binary whatever
\* integers is.
C19_BinaryPrecedence ==
  Built =>
    LET given == TableauModel(model)
        numConstraints == 1 + SidesBefore(Len(ConstraintKeys) + 1)
        binaryRows == numConstraints..(tableau.height - 1)
    IN /\ \A i \in 1..NumVariables :
            (model.binaries.all \/ model.variables[i][1] \in model.binaries.keys) =>
              /\ Count(given.integers, i) = 1
              /\ Cardinality({r \in binaryRows : Row(tableau, r) = BinaryRow(i)}) = 1
              /\ \A r \in binaryRows : Index(tableau, r, i) # Zero => Row(tableau, r) = BinaryRow(i)
       /\ \A k \in {model.variables[i][1] : i \in 1..NumVariables} :
            TableauModel(WithMarks(Keys({k}), Keys({k}))) = TableauModel(WithMarks(NoKeys, Keys({k})))
       /\ \A ints \in {NoKeys, AllKeys, Keys({model.variables[1][1]}), model.integers} :
            LET all == TableauModel(WithMarks(ints, AllKeys))
            IN /\ all.integers = [i \in 1..NumVariables |-> i]
               /\ all.tableau.height = numConstraints + NumVariables
               /\ \A i \in 1..NumVariables :
                    Row(all.tableau, numConstraints + i - 1) = BinaryRow(i)

\* A tableau was built with x marked both integer and binary and y neither,
\* below two constraint rows.
C19_BothIntegerAndBinary ==
  /\ Built
  /\ model.integers = Keys({"x"})
  /\ model.binaries = Keys({"x"})
  /\ tableau.height = 4
  /\ Row(tableau, 3) = BinaryRow(1)

----------------------------------------------------------------------------
(* The two position maps of a tableau.                                     *)

\* positionOfVariable and variableAtPosition are inverse permutations of
\* 0..(width + height - 1), with variable 0 at position 0.
InversePermutations(t) ==
  LET positions == 0..(t.width + t.height - 1)
  IN /\ DOMAIN t.positionOfVariable = positions
     /\ DOMAIN t.variableAtPosition = positions
     /\ \A i \in positions :
          /\ t.positionOfVariable[i] \in positions
          /\ t.variableAtPosition[i] \in positions
          /\ t.variableAtPosition[t.positionOfVariable[i]] = i
          /\ t.positionOfVariable[t.variableAtPosition[i]] = i
     /\ t.positionOfVariable[0] = 0

\* The tableaus there are: the root tableau and the buffers written so far.
Tableaus == {tableau} \cup ({bufferA, bufferB} \ {EmptyBuffer})

\* This step is a pivot of the running simplex.
PivotStep == pc \in {"phase1", "phase2"} /\ iter' = iter + 1

\* Tableau `after` has the variables at column c and at row r of `before`
\* exchanged, and every other entry of both maps as before.
Exchanged(before, after, r, c) ==
  LET entering == before.variableAtPosition[c]
      leaving == before.variableAtPosition[before.width + r]
  IN /\ after.variableAtPosition[c] = leaving
     /\ after.variableAtPosition[before.width + r] = entering
     /\ after.positionOfVariable[leaving] = c
     /\ after.positionOfVariable[entering] = before.width + r
     /\ \A i \in DOMAIN before.variableAtPosition :
          /\ i \notin {c, before.width + r} =>
               after.variableAtPosition[i] = before.variableAtPosition[i]
          /\ i \notin {entering, leaving} =>
               after.positionOfVariable[i] = before.positionOfVariable[i]

\* C20: in every state the maps of every tableau (the root's, and those of the
\* candidates built by applyCuts, pivoted or not) are inverse permutations of
\* its positions with variable 0 at position 0, and a pivot exchanges the
\* variable of one column c >= 1 and of one row r >= 1 and nothing else.
C20_PositionMaps ==
  /\ [](\A t \in Tableaus : InversePermutations(t))
  /\ [][PivotStep =>
          /\ DOMAIN Current'.variableAtPosition = DOMAIN Current.variableAtPosition
          /\ DOMAIN Current'.positionOfVariable = DOMAIN Current.positionOfVariable
          /\ \E r \in 1..(Current.height - 1), c \in 1..(Current.width - 1) :
               Exchanged(Current, Current', r, c)]_vars

\* The simplex of a branch has pivoted the variable of a cut's row into a
\* column of a candidate with two cuts.
C20_CutRowPivoted ==
  /\ BranchRunning
  /\ iter >= 1
  /\ Len(cuts) = 2
  /\ Current.height = tableau.height + 2
  /\ \E c \in 1..(Current.width - 1) : Current.variableAtPosition[c] >= tableau.width + tableau.height

----------------------------------------------------------------------------
(* The simplex on numbers of the size of the precision.                    *)

\* Coefficients and bounds around the precision of the default options
\* (1/100): twice it, it, and numbers far above.
FineCoefs == {Num(1), Num(-1), Q(1, 50), Q(1, 100)}
FineBounds ==
  {[equal |-> Absent, min |-> Absent, max |-> Num(2)],
   [equal |-> Absent, min |-> Absent, max |-> Q(-1, 100)],
   [equal |-> Absent, min |-> Absent, max |-> Q(1, 100)],
   [equal |-> Absent, min |-> Num(1), max |-> Absent]}

\* Two variables x and y, an objective obj and two constraints c1 and c2.
FineModel(direction, obj, c1, c2, con1, con2, marks) ==
  [direction |-> direction,
   objective |-> "obj",
   constraints |-> << <<"c1", con1>>, <<"c2", con2>> >>,
   variables |->
     << <<"x", << <<"obj", obj[1]>>, <<"c1", c1[1]>>, <<"c2", c2[1]>> >> >>,
        <<"y", << <<"obj", obj[2]>>, <<"c1", c1[2]>>, <<"c2", c2[2]>> >> >> >>,
   integers |-> marks[1],
   binaries |-> marks[2]]

FineModels ==
  {FineModel(d, o, c1, c2, con1, con2, m) :
     d \in {"maximize", "minimize"},
     o \in {<<Num(1), Num(1)>>, <<Num(1), Zero>>, <<Num(1), Q(1, 50)>>},
     c1 \in FineCoefs \X FineCoefs,
     c2 \in {<<Num(1), Num(1)>>, <<Q(1, 100), Num(1)>>, <<Num(2), Q(1, 50)>>, <<Num(-1), Num(2)>>},
     con1 \in FineBounds, con2 \in FineBounds,
     m \in {<<NoKeys, NoKeys>>, <<AllKeys, NoKeys>>}}

InitFine ==
  /\ model \in FineModels
  /\ options \in OptionsFor(model)
  /\ Entry

SpecFine == InitFine /\ [][Next]_vars

\* Every right-hand side of rows 1..H-1 is >= -precision.
RhsFeasible(t) == \A r \in 1..(t.height - 1) : Ge(Index(t, r, 0), Neg(Precision))

\* C21: from the hand-over of phase 1 to the return of the simplex run every
\* right-hand side of rows 1..H-1 is >= -precision, so also in the tableau of
\* a solution returned as optimal, and phase 2 never hands back to phase 1.
C21_RhsStaysFeasible ==
  /\ [](pc = "phase2" => RhsFeasible(Current))
  /\ []((Done /\ sol.status = "optimal") => RhsFeasible(Deref(bestTableau)))
  /\ [][pc = "phase2" => pc' # "phase1"]_vars

----------------------------------------------------------------------------
(* The pivot cap and the cycle check of a phase.                           *)

\* What the running phase would do next were the cap one pivot higher.
BeyondCap ==
  LET higher == [options EXCEPT !.maxPivots = @ + 1]
  IN IF pc = "phase1" THEN Phase1Iter(Current, higher, iter, pivotHistory)
     ELSE Phase2Iter(Current, higher, iter, pivotHistory)

\* The running phase has done maxPivots pivots: it returns "cycled".
AtCap == pc \in {"phase1", "phase2"} /\ iter >= options.maxPivots

\* C22: a phase does at most maxPivots pivots, and the cap makes it return
\* "cycled" only when it needs more than maxPivots pivots: after maxPivots
\* pivots its terminal test (phase-1 success or infeasible, optimal or
\* unbounded) does not hold yet.
C22_CapOnlyWhenExceeded ==
  /\ pc \in {"phase1", "phase2"} => iter <= options.maxPivots
  /\ AtCap => BeyondCap.kind = "pivot" \/ (BeyondCap.kind = "return" /\ BeyondCap.status = "cycled")

\* A linear program on which the pivot rules of phase 2 cycle with period 6
\* (Beale's), its third bound and its direction varied.
CyclingModel(direction, bound) ==
  LET sign == IF direction = "minimize" THEN -1 ELSE 1
  IN [direction |-> direction,
      objective |-> "obj",
      constraints |-> << <<"c1", LessEq(0)>>, <<"c2", LessEq(0)>>, <<"c3", LessEq(bound)>> >>,
      variables |->
        << <<"x1", << <<"obj", Q(sign * 3, 4)>>, <<"c1", Q(1, 4)>>, <<"c2", Q(1, 2)>> >> >>,
           <<"x2", << <<"obj", Num(sign * (-150))>>, <<"c1", Num(-60)>>, <<"c2", Num(-90)>> >> >>,
           <<"x3", << <<"obj", Q(sign, 50)>>, <<"c1", Q(-1, 25)>>, <<"c2", Q(-1, 50)>>,
                      <<"c3", Num(1)>> >> >>,
           <<"x4", << <<"obj", Num(sign * (-6))>>, <<"c1", Num(9)>>, <<"c2", Num(3)>> >> >> >>,
      integers |-> NoKeys,
      binaries |-> NoKeys]

\* The cycling models, and models of the family whose phase 1 has to pivot.
CycleModels ==
  {CyclingModel(d, b) : d \in {"maximize", "minimize"}, b \in 1..MaxBound}
  \cup {m \in Models : /\ m.integers = NoKeys /\ m.binaries = NoKeys
                       /\ \A e \in DOMAIN m.constraints : m.constraints[e][2].min # Absent}

\* Pivot caps that let a phase go round the cycle twice, or not quite.
ShortOfTwoCycles == 11
PastTwoCycles == 14

CycleOptions ==
  {[DefaultOptions EXCEPT !.precision = Q(1, 10000), !.maxPivots = cap, !.checkCycles = check] :
     cap \in {ShortOfTwoCycles, PastTwoCycles}, check \in BOOLEAN}

InitCycle ==
  /\ model \in CycleModels
  /\ options \in CycleOptions
  /\ Entry

\* The simplex run of the root; these models have no integer variable.
NextSimplex == Phase1Step \/ Phase2Step

SpecCycle == InitCycle /\ [][NextSimplex]_vars

\* The row and the column the running phase selects next (0: none).
Selected ==
  IF pc = "phase1"
  THEN LET row == LeavingRow1(Current, 1, 0, Neg(options.precision))
       IN [row |-> row,
           col |-> IF row = 0 THEN 0
                   ELSE EnteringCol1(Current, options.precision, row, 1, 0, NegInf)]
  ELSE LET col == EnteringCol2(Current, 1, 0, options.precision)
       IN [col |-> col,
           row |-> IF col = 0 THEN 0
                   ELSE LeavingRow2(Current, options.precision, col, 1, 0, Inf)]

\* The running phase selects a pivot in its next iteration.
Selects ==
  /\ pc \in {"phase1", "phase2"}
  /\ iter < options.maxPivots
  /\ Selected.row # 0
  /\ Selected.col # 0

\* The pair pushed for the selected pivot: [leaving variable, entering variable].
SelectedPair ==
  <<Current.variableAtPosition[Current.width + Selected.row],
    Current.variableAtPosition[Selected.col]>>

\* For some L in 6..floor(n/2) the last L entries equal the L before them.
Repeats(history) ==
  LET n == Len(history)
  IN \E L \in 6..(n \div 2) : SubSeq(history, n - L + 1, n) = SubSeq(history, n - 2 * L + 1, n - L)

\* What the next iteration of the running phase does.
ThisIteration ==
  IF pc = "phase1" THEN Phase1Iter(Current, options, iter, pivotHistory)
  ELSE Phase2Iter(Current, options, iter, pivotHistory)

\* The simplex run returns "cycled" in this step.
ReturnsCycled ==
  /\ pc \in {"phase1", "phase2"}
  /\ Len(simplexRuns') = Len(simplexRuns) + 1
  /\ simplexRuns'[Len(simplexRuns')].status = "cycled"

\* C23: with checkCycles a phase has one history entry per pivot done, none
\* when it starts, each pivot appending the pair [leaving, entering] it
\* selected, and the phase returns "cycled" at a selected pivot exactly when
\* the history with that pair repeats its last L entries for some L in
\* 6..floor(n/2); without checkCycles there is no history and "cycled" comes
\* from the cap alone.
C23_CycleCheck ==
  /\ []((options.checkCycles /\ pc \in {"phase1", "phase2"}) => Len(pivotHistory) = iter)
  /\ []((options.checkCycles /\ Selects) =>
          ((ThisIteration.kind = "return" /\ ThisIteration.status = "cycled")
             <=> Repeats(Append(pivotHistory, SelectedPair))))
  /\ [][(options.checkCycles /\ PivotStep) => pivotHistory' = Append(pivotHistory, SelectedPair)]_vars
  /\ [](~options.checkCycles => pivotHistory = <<>>)
  /\ [][(~options.checkCycles /\ ReturnsCycled) => iter >= options.maxPivots]_vars

\* With checkCycles the twelfth pivot selected repeats the six before it: the
\* run has returned "cycled" below the cap.
C23_CycleFound ==
  /\ Done
  /\ options.checkCycles
  /\ sol.status = "cycled"
  /\ Len(pivotHistory) = 11
  /\ iter < options.maxPivots
  /\ Repeats(Append(pivotHistory, pivotHistory[6]))

----------------------------------------------------------------------------
(* The leaving row of phase 2.                                             *)

\* Phase 2 is about to look for a leaving row for entering column c.
Entering == IF pc = "phase2" /\ iter < options.maxPivots THEN Selected.col ELSE 0

\* The rows a pivot on column c may leave by: M[r, c] > precision.
Qualifying(c) ==
  {r \in 1..(Current.height - 1) : Gt(Index(Current, r, c), options.precision)}

Ratio(r, c) == Div(Index(Current, r, 0), Index(Current, r, c))

\* The first row of the smallest ratio among the qualifying rows (0: none).
SmallestRatioRow(c) ==
  IF Qualifying(c) = {} THEN 0
  ELSE CHOOSE r \in Qualifying(c) :
         \A o \in Qualifying(c) :
           Lt(Ratio(r, c), Ratio(o, c)) \/ (Ratio(r, c) = Ratio(o, c) /\ r <= o)

\* The first row of a set of rows (0: none).
FirstRow(rows) == IF rows = {} THEN 0 ELSE CHOOSE r \in rows : \A o \in rows : r <= o

\* C24 as stated, the early stop read off the right-hand side: the leaving
\* row for entering column c is the first qualifying row with
\* M[r, 0] <= precision if there is one, else the first row of the smallest
\* ratio; "unbounded" with c is returned exactly when no row qualifies.
C24_LeavingRowByRhs ==
  Entering # 0 =>
    LET c == Entering
        degenerate == {r \in Qualifying(c) : Le(Index(Current, r, 0), options.precision)}
    IN /\ Selected.row = (IF degenerate # {} THEN FirstRow(degenerate) ELSE SmallestRatioRow(c))
       /\ (ThisIteration.kind = "return" /\ ThisIteration.status = "unbounded")
            <=> Qualifying(c) = {}
       /\ Qualifying(c) = {} => ThisIteration.result = Num(c)

\* C24, the early stop read off the ratio: the leaving row for entering
\* column c is the first qualifying row whose ratio M[r, 0] / M[r, c] is
\* <= precision if there is one, else the first row of the smallest ratio;
\* "unbounded" with c is returned exactly when no row qualifies.
C24_LeavingRowByRatio ==
  Entering # 0 =>
    LET c == Entering
        degenerate == {r \in Qualifying(c) : Le(Ratio(r, c), options.precision)}
    IN /\ Selected.row = (IF degenerate # {} THEN FirstRow(degenerate) ELSE SmallestRatioRow(c))
       /\ (ThisIteration.kind = "return" /\ ThisIteration.status = "unbounded")
            <=> Qualifying(c) = {}
       /\ Qualifying(c) = {} => ThisIteration.result = Num(c)

\* Phase 2 stops its scan at a row of ratio <= precision although a later
\* qualifying row has a smaller ratio.
C24_StoppedBeforeSmallest ==
  /\ Entering # 0
  /\ Selected.row # 0
  /\ Le(Ratio(Selected.row, Entering), options.precision)
  /\ SmallestRatioRow(Entering) > Selected.row

----------------------------------------------------------------------------
(* The status branchAndCut ends with.                                      *)

\* branchAndCut returns in this step.
SearchReturns == pc = "bnc" /\ pc' = "done"

\* The while is left by its break: a branch was popped and not evaluated.
LeftByPrune == SearchReturns /\ Len(branches') < Len(branches)

\* The while is left with nothing queued.
LeftOnEmptyQueue == SearchReturns /\ branches = <<>>

\* The while is left with an incumbent below the tolerance threshold.
LeftOnThreshold == SearchReturns /\ incumbents # <<>> /\ Lt(BestIncumbent.eval, Threshold)

\* C25: a search that started ends "timedout" exactly when it stopped on its
\* budget (clock or iteration cap reached, branches queued, no incumbent
\* below the threshold); otherwise "optimal" with an incumbent recorded and
\* "infeasible" with none; leaving by the prune test, on an empty queue or on
\* the threshold never gives "timedout".
C25_FinalStatus ==
  /\ []((Done /\ SearchStarted) =>
          sol.status = IF BudgetStop THEN "timedout"
                       ELSE IF incumbents # <<>> THEN "optimal"
                       ELSE "infeasible")
  /\ [][(LeftByPrune \/ LeftOnEmptyQueue \/ LeftOnThreshold) => sol'.status # "timedout"]_vars

\* The search was left by the prune test with branches still queued, within
\* its budget, and returned its incumbent as optimal.
C25_PrunedWithQueue ==
  /\ Done
  /\ SearchStarted
  /\ branches # <<>>
  /\ ~timedout
  /\ bcIter < options.maxIterations
  /\ Ge(bestEval, Threshold)
  /\ sol.status = "optimal"

----------------------------------------------------------------------------
(* The cuts of a branch and the size of the buffers.                       *)

\* maxExtraRows: the rows the buffers are sized for beyond the root tableau.
MaxExtraRows == 2 * Len(IntVars)

\* The cut lists in being: of the queued branches and of the one evaluated.
CutLists == {branches[i].cuts : i \in DOMAIN branches} \cup {cuts}

\* At most one cut of a list for each integer variable and side.
OnePerSide(list) ==
  /\ \A i \in DOMAIN list :
       /\ list[i][1] \in {-1, 1}
       /\ \E k \in DOMAIN IntVars : IntVars[k] = list[i][2]
  /\ \A i, j \in DOMAIN list :
       (list[i][1] = list[j][1] /\ list[i][2] = list[j][2]) => i = j

\* The length of an array.
Length(array) == Cardinality(DOMAIN array)

\* A buffer holds no more than it was sized for.
FitsBuffer(t) ==
  /\ t.height <= tableau.height + MaxExtraRows
  /\ Length(t.matrix) <= Length(tableau.matrix) + MaxExtraRows * tableau.width
  /\ Length(t.positionOfVariable) <= Length(tableau.positionOfVariable) + MaxExtraRows
  /\ Length(t.variableAtPosition) <= Length(tableau.variableAtPosition) + MaxExtraRows

\* C26: every branch holds at most one cut for each integer variable and
\* side, so at most 2 * |integers| cuts, and what applyCuts writes fits the
\* buffers sized for that many extra rows.
C26_CutsFitBuffers ==
  /\ \A list \in CutLists : OnePerSide(list) /\ Len(list) <= MaxExtraRows
  /\ FitsBuffer(bufferA)
  /\ FitsBuffer(bufferB)

\* A child was pushed with as many cuts as its parent and other cuts: a cut
\* of the parent was replaced by the new cut of the same variable and side.
C26_CutReplaced ==
  /\ pc = "bnc"
  /\ cuts # <<>>
  /\ \E i \in DOMAIN branches :
       /\ Len(branches[i].cuts) = Len(cuts)
       /\ branches[i].cuts # cuts
       /\ \A k \in DOMAIN cuts : \E l \in DOMAIN cuts :
            branches[i].cuts[k][1] = cuts[l][1] /\ branches[i].cuts[k][2] = cuts[l][2]

----------------------------------------------------------------------------
(* The storage of the root tableau and of the incumbent.                   *)

\* The incumbent recorded last.
LastIncumbent == incumbents[Len(incumbents)]

\* Each incumbent recorded is strictly better than the one before it.
StrictlyBetter ==
  \A i \in DOMAIN incumbents :
    i > 1 => Lt(incumbents[i].eval, incumbents[i - 1].eval)

\* C27: the buffer applyCuts and the simplex write is neither the root
\* tableau nor the incumbent's: branchAndCut leaves the root tableau as it
\* was, the incumbent's tableau stays as it was recorded until a strictly
\* better incumbent takes its place, and the tableau read at the end is the
\* one that produced bestEval.
C27_StorageKeptApart ==
  /\ [][SearchStarted => tableau' = tableau]_vars
  /\ [](SearchStarted => candidateBuffer # bestTableau)
  /\ [](SearchStarted =>
          IF incumbents = <<>> THEN bestTableau = "root" /\ bestEval = Inf
          ELSE /\ StrictlyBetter
               /\ bestEval = LastIncumbent.eval
               /\ Deref(bestTableau) = LastIncumbent.tableau)
  /\ []((Done /\ SearchStarted /\ incumbents # <<>>) =>
          sol.variables = SolutionVariables(Tabmod(LastIncumbent.tableau), Precision, 0))

\* A second incumbent took the place of the first, and a later branch is
\* pivoted in the candidate buffer, the buffer the first incumbent was in.
C27_PivotedBesideIncumbent ==
  /\ BranchRunning
  /\ iter > 0
  /\ Len(incumbents) > 1
  /\ Deref(candidateBuffer) # LastIncumbent.tableau

----------------------------------------------------------------------------
(* The order of the search.                                                *)

\* This step pops a branch off the queue.
Pops == pc = "bnc" /\ Len(branches') = Len(branches) - 1

\* The branch this step pops.
Popped == branches[CHOOSE i \in DOMAIN branches : branches' = RemoveAt(branches, i)]

\* This step pushes branches; Pushed is what it pushes.
Pushes == pc # "bnc" /\ Len(branches') > Len(branches)
Pushed == SubSeq(branches', Len(branches) + 1, Len(branches'))

\* The result of the simplex run that returns in this step.
Returned == simplexRuns'[Len(simplexRuns')].result

\* Pops hand out a branch of least eval.
PopsLeast ==
  Pops => /\ \E i \in DOMAIN branches : branches' = RemoveAt(branches, i)
          /\ \A j \in DOMAIN branches : Le(Popped.eval, branches[j].eval)

\* The search ends at the pop of a branch of eval above bestEval, and then
\* no queued branch lies below bestEval; any other branch popped is evaluated.
EndsAtWorse ==
  Pops => IF Gt(Popped.eval, bestEval)
          THEN pc' = "done" /\ \A j \in DOMAIN branches' : ~Lt(branches'[j].eval, bestEval)
          ELSE pc' = "phase1" /\ relaxedEval' = Popped.eval /\ cuts' = Popped.cuts

\* The branches pushed carry the result of the run that pushed them: that of
\* the root for the first two, that of their parent for the children.
CarryResult ==
  Pushes => /\ Len(Pushed) = 2
            /\ \A k \in DOMAIN Pushed : Pushed[k].eval = Returned
            /\ ctx = "root" => branches = <<>> /\ initResult' = Returned

\* A child's eval is not below its parent's.
NotBelowParent == (Pushes /\ ctx = "branch") => Le(relaxedEval, Returned)

\* C28: the search is best-first: a pop hands out a branch of least eval; the
\* first two branches carry the root's result and children their parent's;
\* the loop ends at the first branch popped with eval above bestEval, no
\* queued branch being below bestEval then; a child's eval is never below
\* its parent's.
C28_BestFirst ==
  /\ [][PopsLeast]_vars
  /\ [][EndsAtWorse]_vars
  /\ [][CarryResult]_vars
  /\ [][NotBelowParent]_vars

----------------------------------------------------------------------------
(* The rows applyCuts writes.                                              *)

\* applyCuts has just written the candidate buffer for the branch of `cuts`.
CutsApplied == BranchRunning /\ pc = "phase1" /\ iter = 0

\* Values for the variables in the columns of the root tableau.
CutValues == {Zero, Q(1, 2), One, Num(2), Num(3)}
ColumnPoints == [1..(tableau.width - 1) -> CutValues]

\* The value row r of tableau t gives its variable at a point: the
\* right-hand side less the row's entries times the column variables.
RowValue(t, r, point) ==
  LET S[c \in 0..(t.width - 1)] ==
        IF c = 0 THEN Index(t, r, 0) ELSE Sub(S[c - 1], Mul(Index(t, r, c), point[c]))
  IN S[t.width - 1]

\* The value of a variable of the root tableau at a point.
VariableValue(variable, point) ==
  LET pos == tableau.positionOfVariable[variable]
  IN IF pos < tableau.width THEN point[pos] ELSE RowValue(tableau, pos - tableau.width, point)

\* The row of cut i is as applyCuts is said to write it.
CutRowWritten(i) ==
  LET sign == cuts[i][1]
      value == cuts[i][3]
      pos == tableau.positionOfVariable[cuts[i][2]]
      row == tableau.height + i - 1
  IN IF pos < tableau.width
     THEN /\ Index(Current, row, 0) = Num(sign * value)
          /\ \A c \in 1..(tableau.width - 1) :
               Index(Current, row, c) = IF c = pos THEN Num(sign) ELSE Zero
     ELSE /\ Index(Current, row, 0) =
               Mul(Num(sign), Sub(Num(value), Index(tableau, pos - tableau.width, 0)))
          /\ \A c \in 1..(tableau.width - 1) :
               Index(Current, row, c) = Mul(Num(-sign), Index(tableau, pos - tableau.width, c))

\* The row of cut i has a slack >= 0 exactly at the points that keep the
\* cut: variable <= value for sign 1, variable >= value for sign -1.
CutRowMeansCut(i) ==
  \A point \in ColumnPoints :
    Ge(RowValue(Current, tableau.height + i - 1, point), Zero) <=>
      IF cuts[i][1] = 1 THEN Le(VariableValue(cuts[i][2], point), Num(cuts[i][3]))
      ELSE Ge(VariableValue(cuts[i][2], point), Num(cuts[i][3]))

\* C29: applyCuts copies the rows of the root tableau and adds for cut i a
\* row H + i that says exactly the cut: for a variable in column pos the
\* right-hand side sign * value, sign in column pos and zeros elsewhere; for
\* a variable of root row r the right-hand side sign * (value - M[r, 0]) and
\* -sign * M[r, c] in the columns c >= 1; the slack of the row is variable
\* W + H + i at position W + H + i.
C29_CutsEncoded ==
  CutsApplied =>
    /\ Current.width = tableau.width
    /\ Current.height = tableau.height + Len(cuts)
    /\ \A k \in 0..(tableau.width * tableau.height - 1) : Current.matrix[k] = tableau.matrix[k]
    /\ \A p \in 0..(tableau.width + tableau.height - 1) :
         /\ Current.positionOfVariable[p] = tableau.positionOfVariable[p]
         /\ Current.variableAtPosition[p] = tableau.variableAtPosition[p]
    /\ \A i \in DOMAIN cuts :
         /\ CutRowWritten(i)
         /\ CutRowMeansCut(i)
         /\ Current.positionOfVariable[tableau.width + tableau.height + i - 1]
              = tableau.width + tableau.height + i - 1
         /\ Current.variableAtPosition[tableau.width + tableau.height + i - 1]
              = tableau.width + tableau.height + i - 1

\* applyCuts wrote two cuts, one of a variable in a row of the root tableau
\* and one of a variable in a column of it.
C29_RowAndColumnCut ==
  /\ CutsApplied
  /\ \E i, j \in DOMAIN cuts :
       /\ tableau.positionOfVariable[cuts[i][2]] >= tableau.width
       /\ tableau.positionOfVariable[cuts[j][2]] < tableau.width

----------------------------------------------------------------------------
(* The statuses of the branches' simplex runs.                             *)

\* The simplex runs of the branches, among those that returned.
BranchRuns == {i \in DOMAIN simplexRuns : simplexRuns[i].ctx = "branch"}

\* C30: the simplex run of a branch never returns "unbounded": it returns
\* "optimal", "infeasible" or "cycled".
C30_BranchNeverUnbounded ==
  \A i \in BranchRuns : simplexRuns[i].status \in {"optimal", "infeasible", "cycled"}

====
